---- MODULE Spec2Model ----
(***************************************************************************)
(* Verification model of the fusion-hawking SOME/IP stack:                 *)
(*   - session-id allocation (codec/session.rs and runtime/mod.rs),        *)
(*   - the runtime dispatcher's pending-request map (runtime/mod.rs),      *)
(*   - the Service Discovery state machine (sd/machine.rs).                *)
(* Each part has its own specification over the shared variables; the      *)
(* variables of the other parts stay at their initial value.               *)
(***************************************************************************)
EXTENDS Integers, Sequences, FiniteSets, TLC

VARIABLES
    sessObj,          \* which allocator object the session harness constructed
    counters,         \* SessionIdManager.counters: (service, method) -> next id
    session_manager,  \* SomeIpRuntime.session_manager: (service, method) -> next id
    sessRet,          \* last allocation: [key, val returned, prev returned for key]
    sessLast          \* per key: the value last returned (NoId if none, or reset)

sessVars == <<sessObj, counters, session_manager, sessRet, sessLast>>

VARIABLES
    udp_transports,   \* SomeIpRuntime.udp_transports: address families bound
    services,         \* SomeIpRuntime.services: service ids with a handler
    pending_requests, \* (service, method, session) -> call owning the Sender
    tp_reassembler,   \* TpReassembler.buffers: key -> offset -> [data, more]
    calls,            \* send_request_and_wait invocations, in start order
    rtOut             \* what the last step did outside memory: handler
                      \* invocations and messages handed to a transport

rtVars == <<udp_transports, services, pending_requests, tp_reassembler, calls, rtOut>>

VARIABLES
    now,                   \* the monotonic clock (Instant::now), in milliseconds
    offer_calls,           \* offer_service calls made so far
    local_services,        \* ServiceDiscovery.local_services
    remote_services,       \* ServiceDiscovery.remote_services
    rxOffers,              \* per key: the OfferService entry last handled
    subscriptions,         \* ServiceDiscovery.subscriptions
    pending_subscriptions, \* ServiceDiscovery.pending_subscriptions
    sdOut                  \* SD packets the last step handed to send_packet

sdVars == <<now, offer_calls, local_services, remote_services, rxOffers,
            subscriptions, pending_subscriptions, sdOut>>

VARIABLES
    ls                     \* one LocalService, driven on its own

VARIABLES
    tpRun                  \* one payload: segment_payload's locals, then a
                           \* TpReassembler and what reassembly returned

VARIABLES
    tcp                    \* one TcpTransport and the byte stream of its peer

VARIABLES
    srv                    \* one TcpServer and the byte streams of its peers

VARIABLES
    pool                   \* one ThreadPool: its channels, workers and submitted jobs

VARIABLES
    threads                \* each thread's position in its function and the locks it holds

vars == <<sessVars, rtVars, sdVars, ls, tpRun, tcp, srv, pool, threads>>

\* what the steps of one part leave alone
notSess == <<rtVars, sdVars, ls, tpRun, tcp, srv, pool, threads>>
notRt == <<sessObj, counters, sessRet, sessLast, sdVars, ls, tpRun, tcp, srv, pool, threads>>
notSd == <<sessVars, rtVars, ls, tpRun, tcp, srv, pool, threads>>
notTp == <<sessVars, rtVars, sdVars, ls, tcp, srv, pool, threads>>
notTcp == <<sessVars, rtVars, sdVars, ls, tpRun, srv, pool, threads>>
notSrv == <<sessVars, rtVars, sdVars, ls, tpRun, tcp, pool, threads>>
notPool == <<sessVars, rtVars, sdVars, ls, tpRun, tcp, srv, threads>>
notThreads == <<sessVars, rtVars, sdVars, ls, tpRun, tcp, srv, pool>>

-----------------------------------------------------------------------------
(* Shared domains *)

\* width of a session id (u16)
U16 == 65536

\* service ids used by the model (0x1001 and 0x1234 in the repository's examples)
ServiceIds == {4097, 4660}

\* method ids used by the model
MethodIds == {1}

SessKeys == ServiceIds \X MethodIds

\* the key whose counter is driven through the whole 16-bit range
FullKey == <<4097, 1>>

\* allocations allowed on every other key
MaxOtherAllocs == 3

NoId == -1

-----------------------------------------------------------------------------
(* codec/session.rs : SessionIdManager *)

\* mutant: an existing entry is kept (entry().or_insert)
MapPutIfAbsent(m, k, v) == [x \in (DOMAIN m) \cup {k} |-> IF x \in DOMAIN m THEN m[x] ELSE v]

\* HashMap::insert / store on an existing entry
MapPut(m, k, v) == [x \in (DOMAIN m) \cup {k} |-> IF x = k THEN v ELSE m[x]]

\* HashMap::remove
MapRemove(m, k) == [x \in (DOMAIN m) \ {k} |-> m[x]]

EmptyMap == [x \in {} |-> 0]

\* AtomicU16::fetch_add(1): wrapping add on 16 bits
FetchAdd1(c) == (c + 1) % U16

\* mutant: wrap is not repaired, the counter stays at 0 after 0xFFFF
next_session_id_nowrapfix(cs, key) ==
    IF key \in DOMAIN cs
    THEN [val |-> cs[key], cs |-> MapPut(cs, key, FetchAdd1(cs[key]))]
    ELSE [val |-> 1, cs |-> MapPut(cs, key, 2)]

\* SessionIdManager::next_session_id: returns the value and the new map
next_session_id(cs, key) ==
    IF key \in DOMAIN cs
    THEN LET current == cs[key]
             after   == FetchAdd1(current)
         IN  [val |-> current,
              cs  |-> MapPut(cs, key, IF after = 0 THEN 1 ELSE after)]
    ELSE [val |-> 1, cs |-> MapPut(cs, key, 2)]

\* SessionIdManager::reset: only an existing counter is stored to 1
reset(cs, key) == IF key \in DOMAIN cs THEN MapPut(cs, key, 1) ELSE cs

\* SessionIdManager::reset_all
reset_all(cs) == EmptyMap

\* runtime/mod.rs: the inline allocation opening send_request_and_wait
alloc_session(mgr, key) ==
    LET val == IF key \in DOMAIN mgr THEN mgr[key] ELSE 1
    IN  [val |-> val,
         mgr |-> MapPut(mgr, key, IF val = 65535 THEN 1 ELSE val + 1)]

-----------------------------------------------------------------------------
(* Byte strings.  A byte string is a sequence of runs [src, off, len]: the  *)
(* bytes off .. off+len-1 of the buffer named src.  Runs are kept merged,   *)
(* so two byte strings are equal iff they hold the same bytes in order.     *)

Bytes(src, n) == IF n = 0 THEN <<>> ELSE <<[src |-> src, off |-> 0, len |-> n]>>

RECURSIVE BLen(_)
\* Vec::len / slice::len
BLen(b) == IF b = <<>> THEN 0 ELSE Head(b).len + BLen(Tail(b))

\* Vec::extend_from_slice
BCat(a, b) ==
    IF a = <<>> THEN b
    ELSE IF b = <<>> THEN a
    ELSE LET x == a[Len(a)]
             y == Head(b)
         IN  IF x.src = y.src /\ x.off + x.len = y.off
             THEN SubSeq(a, 1, Len(a) - 1)
                    \o <<[src |-> x.src, off |-> x.off, len |-> x.len + y.len]>>
                    \o Tail(b)
             ELSE a \o b

RECURSIVE BSlice(_, _, _)
\* payload[from .. from + n] of a byte string (from + n <= len)
BSlice(b, from, n) ==
    IF n = 0 \/ b = <<>> THEN <<>>
    ELSE LET h == Head(b)
         IN  IF from >= h.len THEN BSlice(Tail(b), from - h.len, n)
             ELSE LET take == IF from + n <= h.len THEN n ELSE h.len - from
                  IN  BCat(<<[src |-> h.src, off |-> h.off + from, len |-> take]>>,
                           BSlice(Tail(b), 0, n - take))

-----------------------------------------------------------------------------
(* codec/tp.rs : TP header, segmentation, reassembly *)

\* TP offsets are counted in units of 16 bytes
TpAlignment == 16

\* TpHeader::new
TpHeader(offset, more) == [offset |-> offset, more_segments |-> more]

\* TpHeader::serialize: the 32-bit word (offset / 16) << 4 | more
TpSerialize(h) ==
    (h.offset \div TpAlignment) * 16 + (IF h.more_segments THEN 1 ELSE 0)

\* TpHeader::deserialize of a 32-bit word
TpDeserialize(word) ==
    [offset |-> (word \div 16) * TpAlignment, more_segments |-> (word % 2) = 1]

RECURSIVE SegmentFrom(_, _, _)
\* the while loop of segment_payload, from `cursor` on
SegmentFrom(payload, aligned_max, cursor) ==
    LET total_len == BLen(payload)
    IN  IF ~(cursor < total_len) THEN <<>>
        ELSE LET remaining == total_len - cursor
                 chunk_len == IF remaining > aligned_max THEN aligned_max ELSE remaining
                 more      == (cursor + chunk_len) < total_len
             IN  <<[tp |-> TpHeader(cursor, more),
                    chunk |-> BSlice(payload, cursor, chunk_len)]>>
                 \o SegmentFrom(payload, aligned_max, cursor + chunk_len)

\* segment_payload (for max_payload_per_segment >= 16, as its callers pass)
segment_payload(payload, max_payload_per_segment) ==
    LET aligned_max == (max_payload_per_segment \div TpAlignment) * TpAlignment
    IN  IF BLen(payload) = 0
        THEN <<[tp |-> TpHeader(0, FALSE), chunk |-> <<>>]>>
        ELSE SegmentFrom(payload, aligned_max, 0)

\* BTreeMap iteration order: the least key of a non-empty key set
MinOf(S) == CHOOSE x \in S : \A y \in S : x <= y

\* mutant: a stored segment with more = false completes, whatever lies before
TpScan_nogap(segments, todo, expected_offset) ==
    IF \E offset \in todo : ~segments[offset].more THEN "complete" ELSE "open"

RECURSIVE TpScan(_, _, _)
\* the continuity loop of process_segment over the offsets still to visit:
\* "gap", "complete" (a segment with more = false was reached) or "open"
TpScan(segments, todo, expected_offset) ==
    IF todo = {} THEN "open"
    ELSE LET offset == MinOf(todo)
         IN  IF offset # expected_offset THEN "gap"
             ELSE IF ~segments[offset].more THEN "complete"
             ELSE TpScan(segments, todo \ {offset},
                         expected_offset + BLen(segments[offset].data))

RECURSIVE TpConcat(_, _)
\* the reassembly loop of process_segment: every stored segment, in offset order
TpConcat(segments, todo) ==
    IF todo = {} THEN <<>>
    ELSE LET offset == MinOf(todo)
         IN  BCat(segments[offset].data, TpConcat(segments, todo \ {offset}))

RECURSIVE ReassembleFrom(_, _, _, _)
\* the loop of reassemble_payload over the offsets still to visit
ReassembleFrom(segments, todo, next_offset, buffer) ==
    IF todo = {} THEN [ok |-> TRUE, payload |-> buffer]
    ELSE LET offset == MinOf(todo)
         IN  IF offset # next_offset THEN [ok |-> FALSE, payload |-> <<>>]
             ELSE ReassembleFrom(segments, todo \ {offset},
                                 next_offset + BLen(segments[offset]),
                                 BCat(buffer, segments[offset]))

\* mutant: the data of the first segment only
reassemble_payload_first(segments) ==
    IF DOMAIN segments = {} THEN [ok |-> TRUE, payload |-> <<>>]
    ELSE [ok |-> TRUE, payload |-> segments[MinOf(DOMAIN segments)]]

\* reassemble_payload over a BTreeMap offset -> data: [ok, payload]
reassemble_payload(segments) == ReassembleFrom(segments, DOMAIN segments, 0, <<>>)

\* mutant: the key stays in the map when its message is complete
process_segment_keep(buffers, message_id, request_id, tp_header, payload) ==
    LET key      == <<message_id, request_id>>
        old      == IF key \in DOMAIN buffers THEN buffers[key] ELSE EmptyMap
        segments == MapPut(old, tp_header.offset,
                           [data |-> payload, more |-> tp_header.more_segments])
        stored   == MapPut(buffers, key, segments)
    IN  IF 0 \in DOMAIN segments /\ TpScan(segments, DOMAIN segments, 0) = "complete"
        THEN [done |-> TRUE, payload |-> TpConcat(segments, DOMAIN segments),
              buffers |-> stored]
        ELSE [done |-> FALSE, payload |-> <<>>, buffers |-> stored]

\* TpReassembler::process_segment: [done, payload, buffers]
process_segment(buffers, message_id, request_id, tp_header, payload) ==
    LET key      == <<message_id, request_id>>
        old      == IF key \in DOMAIN buffers THEN buffers[key] ELSE EmptyMap
        segments == MapPut(old, tp_header.offset,
                           [data |-> payload, more |-> tp_header.more_segments])
        stored   == MapPut(buffers, key, segments)
    IN  IF 0 \notin DOMAIN segments
        THEN [done |-> FALSE, payload |-> <<>>, buffers |-> stored]
        ELSE IF TpScan(segments, DOMAIN segments, 0) = "complete"
        THEN [done |-> TRUE,
              payload |-> TpConcat(segments, DOMAIN segments),
              buffers |-> MapRemove(buffers, key)]
        ELSE [done |-> FALSE, payload |-> <<>>, buffers |-> stored]

-----------------------------------------------------------------------------
(* Session harness: one allocator object, driven call by call *)

\* the counter of a key other than FullKey is only driven MaxOtherAllocs times
SessMayAlloc(m, key) ==
    IF key = FullKey \/ key \notin DOMAIN m THEN TRUE ELSE m[key] <= MaxOtherAllocs

\* history: the value handed to the caller, and the one handed out before it
Returned(key, val) ==
    /\ sessRet' = [key |-> key, val |-> val, prev |-> sessLast[key]]
    /\ sessLast' = [sessLast EXCEPT ![key] = val]

ManagerNext(key) ==
    /\ sessObj = "SessionIdManager"
    /\ SessMayAlloc(counters, key)
    /\ LET r == next_session_id(counters, key)
       IN  /\ counters' = r.cs
           /\ Returned(key, r.val)
    /\ UNCHANGED <<sessObj, session_manager, notSess>>

ManagerReset(key) ==
    /\ sessObj = "SessionIdManager"
    /\ key \in DOMAIN counters
    /\ counters' = reset(counters, key)
    /\ sessLast' = [sessLast EXCEPT ![key] = NoId]
    /\ UNCHANGED <<sessObj, session_manager, sessRet, notSess>>

ManagerResetAll ==
    /\ sessObj = "SessionIdManager"
    /\ counters' = reset_all(counters)
    /\ sessLast' = [k \in SessKeys |-> NoId]
    /\ UNCHANGED <<sessObj, session_manager, sessRet, notSess>>

RuntimeAlloc(key) ==
    /\ sessObj = "SomeIpRuntime"
    /\ SessMayAlloc(session_manager, key)
    /\ LET r == alloc_session(session_manager, key)
       IN  /\ session_manager' = r.mgr
           /\ Returned(key, r.val)
    /\ UNCHANGED <<sessObj, counters, notSess>>

SessNext ==
    \/ \E key \in SessKeys : ManagerNext(key)
    \/ \E key \in SessKeys : ManagerReset(key)
    \/ ManagerResetAll
    \/ \E key \in SessKeys : RuntimeAlloc(key)

-----------------------------------------------------------------------------
(* codec/header.rs *)

\* MessageType::uses_tp, through SomeIpHeader::message_type_enum
uses_tp(message_type) == message_type \in {32, 33, 34, 160, 161}

\* SomeIpHeader::new: the length field covers request id .. payload
SomeIpHeader(service_id, method_id, client_id, session_id, message_type, payload_len) ==
    [service_id |-> service_id, method_id |-> method_id,
     length |-> payload_len + 8,
     client_id |-> client_id, session_id |-> session_id,
     protocol_version |-> 1, interface_version |-> 1,
     message_type |-> message_type, return_code |-> 0]

-----------------------------------------------------------------------------
(* runtime/mod.rs : SomeIpRuntime, send_request_and_wait and run *)

\* let mtu = 1400
Mtu == 1400

\* let header_len = 20 (16 header + 4 TP)
TpHeaderLen == 20

\* (mtu - header_len) / 16 * 16
MaxSegmentPayload == ((Mtu - TpHeaderLen) \div 16) * 16

\* send_request_and_wait invocations the model starts
MaxCalls == 2

NoTp == -1
\* a handler returning None (no byte string has a run of length 0)
NoReply == <<[src |-> "None", off |-> 0, len |-> 0]>>

\* payloads callers pass: one that fits a datagram, one that needs TP
ReqPayloads == {Bytes("req", 8), Bytes("bigreq", 1400)}

\* what a handler may return: None, a small payload, one that needs TP
HandlerReplies == {NoReply, Bytes("res", 4), Bytes("bigres", 1400)}

Families == {"v4", "v6"}

\* services the application registers a handler for
HandlerServices == {4660}

\* the service the application calls
CallServices == {4660}

PendingKey(c) == <<c.service_id, c.method_id, c.session_id>>

\* a call still owns its Receiver until it returns, panics or is dropped
RxAlive(c) == c.pc \in {"insert", "send", "wait"}

InProgress(c) == c.pc \in {"insert", "send", "wait"}

\* mutant: the value is stored whether or not the Receiver is still there
TxSend_any(cs, i, payload) == [cs EXCEPT ![i].chan = "full", ![i].val = payload]

\* oneshot::Sender::send: stores the value unless the Receiver is gone
TxSend(cs, i, payload) ==
    IF RxAlive(cs[i]) /\ cs[i].chan = "open"
    THEN [cs EXCEPT ![i].chan = "full", ![i].val = payload]
    ELSE cs

\* dropping a Sender that never sent closes the channel
TxDrop(cs, i) ==
    IF cs[i].chan = "open" THEN [cs EXCEPT ![i].chan = "closed"] ELSE cs

\* pending.remove(key): the Sender taken out of the map is dropped
PendingRemove(pend, cs, key) ==
    IF key \in DOMAIN pend
    THEN [pend |-> MapRemove(pend, key), calls |-> TxDrop(cs, pend[key])]
    ELSE [pend |-> pend, calls |-> cs]

\* mutant: every request goes out as one message
RequestMessages_single(c) ==
    <<[hdr |-> SomeIpHeader(c.service_id, c.method_id, 0, c.session_id, 0,
                            BLen(c.payload)),
       tp |-> NoTp, data |-> c.payload, dst |-> c.target]>>

\* the messages one request is sent as
RequestMessages(c) ==
    IF BLen(c.payload) > MaxSegmentPayload
    THEN LET segments == segment_payload(c.payload, MaxSegmentPayload)
         IN  [n \in 1..Len(segments) |->
                [hdr |-> SomeIpHeader(c.service_id, c.method_id, 0, c.session_id, 32,
                                      4 + BLen(segments[n].chunk)),
                 tp |-> TpSerialize(segments[n].tp),
                 data |-> segments[n].chunk,
                 dst |-> c.target]]
    ELSE <<[hdr |-> SomeIpHeader(c.service_id, c.method_id, 0, c.session_id, 0,
                                 BLen(c.payload)),
            tp |-> NoTp, data |-> c.payload, dst |-> c.target]>>

NoOut == [handled |-> <<>>, sent |-> <<>>]

\* the locals of a call that has returned, panicked or been dropped are gone
Ended(c, pc, result) ==
    [c EXCEPT !.pc = pc, !.result = result, !.payload = <<>>, !.seg = 0]

\* lines 516-524: allocate the session id, create the oneshot channel
SRW_Begin(service_id, method_id, payload, target) ==
    /\ Len(calls) < MaxCalls
    /\ LET r == alloc_session(session_manager, <<service_id, method_id>>)
       IN  /\ session_manager' = r.mgr
           /\ calls' = Append(calls,
                  [pc |-> "insert", service_id |-> service_id,
                   method_id |-> method_id, session_id |-> r.val,
                   payload |-> payload, target |-> target, seg |-> 1,
                   chan |-> "open", val |-> <<>>, result |-> "pending"])
    /\ rtOut' = NoOut
    /\ UNCHANGED <<udp_transports, services, pending_requests, tp_reassembler, notRt>>

\* lines 525-535: insert the Sender, then look the transport up (expect)
SRW_Insert(i) ==
    /\ calls[i].pc = "insert"
    /\ LET key   == PendingKey(calls[i])
           freed == IF key \in DOMAIN pending_requests
                    THEN TxDrop(calls, pending_requests[key]) ELSE calls
       IN  /\ pending_requests' = MapPut(pending_requests, key, i)
           /\ calls' = [freed EXCEPT ![i] =
                           IF calls[i].target \in udp_transports
                           THEN [@ EXCEPT !.pc = "send"]
                           ELSE Ended(@, "panicked", "pending")]
    /\ rtOut' = NoOut
    /\ UNCHANGED <<session_manager, udp_transports, services, tp_reassembler, notRt>>

\* lines 537-565: one transport.send; on Err remove the slot and return None
SRW_Send(i, ok) ==
    /\ calls[i].pc = "send"
    /\ LET msgs == RequestMessages(calls[i])
           n    == calls[i].seg
       IN  IF ok
           THEN /\ calls' = [calls EXCEPT ![i].seg = n + 1,
                                          ![i].pc = IF n = Len(msgs) THEN "wait" ELSE "send"]
                /\ rtOut' = [handled |-> <<>>, sent |-> <<msgs[n]>>]
                /\ UNCHANGED pending_requests
           ELSE LET r == PendingRemove(pending_requests, calls, PendingKey(calls[i]))
                IN  /\ pending_requests' = r.pend
                    /\ calls' = [r.calls EXCEPT ![i] = Ended(@, "done", "None")]
                    /\ rtOut' = NoOut
    /\ UNCHANGED <<session_manager, udp_transports, services, tp_reassembler, notRt>>

\* line 568: the awaited Receiver yields the response
SRW_Recv(i) ==
    /\ calls[i].pc = "wait"
    /\ calls[i].chan = "full"
    /\ calls' = [calls EXCEPT ![i] = Ended(@, "done", "Some")]
    /\ rtOut' = NoOut
    /\ UNCHANGED <<session_manager, udp_transports, services, pending_requests,
                   tp_reassembler, notRt>>

\* lines 569-573: the 2 s deadline passes, or the Sender was dropped
SRW_GiveUp(i) ==
    /\ calls[i].pc = "wait"
    /\ calls[i].chan \in {"open", "closed"}
    /\ LET r == PendingRemove(pending_requests, calls, PendingKey(calls[i]))
       IN  /\ pending_requests' = r.pend
           /\ calls' = [r.calls EXCEPT ![i] = Ended(@, "done", "None")]
    /\ rtOut' = NoOut
    /\ UNCHANGED <<session_manager, udp_transports, services, tp_reassembler, notRt>>

\* the caller drops the future at its only await point (line 567)
SRW_Drop(i) ==
    /\ calls[i].pc = "wait"
    /\ calls' = [calls EXCEPT ![i] = Ended(@, "dropped", "pending")]
    /\ rtOut' = NoOut
    /\ UNCHANGED <<session_manager, udp_transports, services, pending_requests,
                   tp_reassembler, notRt>>

\* register_notification_handler / the dispatch-map insert of offer_service
register_handler(service_id) ==
    /\ services' = services \cup {service_id}
    /\ rtOut' = NoOut
    /\ UNCHANGED <<session_manager, udp_transports, pending_requests, tp_reassembler,
                   calls, notRt>>

\* sessions an inbound frame may name
RxSessions == 1..MaxCalls

\* TP words and segment bodies of inbound TP frames: a first segment with
\* More set, a message in one segment, a last segment at offset 16
RxSegments ==
    {[tp |-> TpSerialize(TpHeader(0, TRUE)),   data |-> Bytes("seg0", 16)],
     [tp |-> TpSerialize(TpHeader(0, FALSE)),  data |-> Bytes("tail0", 4)],
     [tp |-> TpSerialize(TpHeader(16, FALSE)), data |-> Bytes("tail1", 4)]}

\* the one (service, session) inbound TP frames are sent under
RxTpService == 4660
RxTpSession == 1

Frame(service_id, method_id, session_id, message_type, tp, data, size) ==
    [hdr |-> [service_id |-> service_id, method_id |-> method_id,
              client_id |-> 0, session_id |-> session_id,
              message_type |-> message_type],
     tp |-> tp, data |-> data, size |-> size, src |-> "peer", via |-> "udp_v4"]

\* frames from servers: Response and Error, ResponseWithTp segments, a
\* datagram shorter than a header, a TP message shorter than 20 bytes
RxResponses ==
    {Frame(sid, mid, sess, mt, NoTp, Bytes("rx", 4), 20) :
        sid \in ServiceIds, mid \in MethodIds, sess \in RxSessions, mt \in {128, 129}}
    \cup
    {Frame(RxTpService, mid, RxTpSession, 160, sg.tp, sg.data, 20 + BLen(sg.data)) :
        mid \in MethodIds, sg \in RxSegments}
    \cup
    {Frame(4097, 1, 1, 128, NoTp, <<>>, 8), Frame(4097, 1, 1, 160, NoTp, <<>>, 18)}

\* client ids of inbound requests
RxClients == {0, 7}

\* where a frame comes from, and the transport of the loop that received it
RxPeers == {[src |-> "peer", via |-> "udp_v4"], [src |-> "peer2", via |-> "tcp"]}

\* a frame of client cid received from peer p
FrameFrom(f, cid, p) == [f EXCEPT !.hdr.client_id = cid, !.src = p.src, !.via = p.via]

\* frames from clients: Request, RequestNoReturn, Notification and Error,
\* segments of the three TP types, a datagram shorter than a header and a TP
\* message shorter than 20 bytes
RxRequests ==
    {FrameFrom(Frame(sid, mid, RxTpSession, mt, NoTp, Bytes("rx", 4), 20), cid, p) :
        sid \in ServiceIds, mid \in MethodIds, mt \in {0, 1, 2, 129},
        cid \in RxClients, p \in RxPeers}
    \cup
    {FrameFrom(Frame(RxTpService, mid, RxTpSession, mt, sg.tp, sg.data, 20 + BLen(sg.data)),
               cid, p) :
        mid \in MethodIds, mt \in {32, 33, 34}, sg \in RxSegments,
        cid \in RxClients, p \in RxPeers}
    \cup
    {Frame(4660, 1, 1, 0, NoTp, <<>>, 8), Frame(4660, 1, 1, 32, NoTp, <<>>, 18)}

\* run, lines 596-646: header, TP sub-header, reassembly.
\* [go, payload, buffers]: go is false where the loop says `continue`
rx_stage(buffers, f) ==
    IF f.size < 16 THEN [go |-> FALSE, payload |-> <<>>, buffers |-> buffers]
    ELSE IF uses_tp(f.hdr.message_type)
    THEN IF f.size < 20 THEN [go |-> FALSE, payload |-> <<>>, buffers |-> buffers]
         ELSE LET r == process_segment(buffers,
                          f.hdr.service_id * 65536 + f.hdr.method_id,
                          f.hdr.client_id * 65536 + f.hdr.session_id,
                          TpDeserialize(f.tp), f.data)
              IN  [go |-> r.done, payload |-> r.payload, buffers |-> r.buffers]
    ELSE [go |-> TRUE, payload |-> f.data, buffers |-> buffers]

\* mutant: the reply is built with client id 0
ReplyMessages_client0(hdr, res_payload, src, via) ==
    <<[hdr |-> SomeIpHeader(hdr.service_id, hdr.method_id, 0,
                            hdr.session_id, 128, BLen(res_payload)),
       tp |-> NoTp, data |-> res_payload, dst |-> src, via |-> via]>>

\* the messages a reply payload is sent as (lines 681-718), each by
\* transport.send(&msg, Some(src)) on the transport the request came in on
ReplyMessages(hdr, res_payload, src, via) ==
    IF BLen(res_payload) > MaxSegmentPayload
    THEN LET segments == segment_payload(res_payload, MaxSegmentPayload)
         IN  [n \in 1..Len(segments) |->
                [hdr |-> SomeIpHeader(hdr.service_id, hdr.method_id, hdr.client_id,
                                      hdr.session_id, 160, 4 + BLen(segments[n].chunk)),
                 tp |-> TpSerialize(segments[n].tp),
                 data |-> segments[n].chunk,
                 dst |-> src, via |-> via]]
    ELSE <<[hdr |-> SomeIpHeader(hdr.service_id, hdr.method_id, hdr.client_id,
                                 hdr.session_id, 128, BLen(res_payload)),
            tp |-> NoTp, data |-> res_payload, dst |-> src, via |-> via]>>

\* mutant: the response is looked up without taking the Sender out of the map
dispatch_response_keep(pend, cs, key, payload) ==
    IF key \in DOMAIN pend
    THEN [pend |-> pend, calls |-> TxSend(cs, pend[key], payload)]
    ELSE [pend |-> pend, calls |-> cs]

\* run, lines 652-658: pending.remove(key), then tx.send(payload)
dispatch_response(pend, cs, key, payload) ==
    IF key \in DOMAIN pend
    THEN [pend |-> MapRemove(pend, key), calls |-> TxSend(cs, pend[key], payload)]
    ELSE [pend |-> pend, calls |-> cs]

\* run, lines 594-723: one received datagram or frame, start to `continue`;
\* a handler that is invoked returns any of HandlerReplies
run_receive(f) ==
    LET st  == rx_stage(tp_reassembler, f)
        mt  == f.hdr.message_type
        inv(reply) == <<[service_id |-> f.hdr.service_id, message_type |-> mt,
                         payload |-> st.payload, returned |-> reply]>>
    IN  /\ tp_reassembler' = st.buffers
        /\ IF ~st.go
           THEN /\ rtOut' = NoOut
                /\ UNCHANGED <<pending_requests, calls>>
           ELSE IF mt \in {128, 160}
           THEN LET r == dispatch_response(pending_requests, calls,
                            <<f.hdr.service_id, f.hdr.method_id, f.hdr.session_id>>,
                            st.payload)
                IN  /\ pending_requests' = r.pend
                    /\ calls' = r.calls
                    /\ rtOut' = NoOut
           ELSE IF mt \in {2, 34}
           THEN /\ \E reply \in HandlerReplies :
                      rtOut' = [handled |-> IF f.hdr.service_id \in services
                                            THEN inv(reply) ELSE <<>>,
                                sent |-> <<>>]
                /\ UNCHANGED <<pending_requests, calls>>
           ELSE IF f.hdr.service_id \in services /\ mt \in {0, 32, 1, 33}
           THEN /\ \E reply \in HandlerReplies :
                      rtOut' = [handled |-> inv(reply),
                                sent |-> IF reply # NoReply /\ mt \in {0, 32}
                                         THEN ReplyMessages(f.hdr, reply, f.src, f.via)
                                         ELSE <<>>]
                /\ UNCHANGED <<pending_requests, calls>>
           ELSE /\ rtOut' = NoOut
                /\ UNCHANGED <<pending_requests, calls>>
        /\ UNCHANGED <<session_manager, udp_transports, services, notRt>>

\* callers of send_request_and_wait against the loop receiving from servers
RtNext ==
    \/ \E sid \in CallServices, mid \in MethodIds, p \in ReqPayloads, t \in Families :
          SRW_Begin(sid, mid, p, t)
    \/ \E i \in 1..Len(calls) : SRW_Insert(i)
    \/ \E i \in 1..Len(calls), ok \in BOOLEAN : SRW_Send(i, ok)
    \/ \E i \in 1..Len(calls) : SRW_Recv(i)
    \/ \E i \in 1..Len(calls) : SRW_GiveUp(i)
    \/ \E i \in 1..Len(calls) : SRW_Drop(i)
    \/ \E sid \in HandlerServices : register_handler(sid)
    \/ \E f \in RxResponses : run_receive(f)

\* the loop serving clients: handlers against inbound requests
ServeNext ==
    \/ \E sid \in HandlerServices : register_handler(sid)
    \/ \E f \in RxRequests : run_receive(f)

-----------------------------------------------------------------------------
(* sd/machine.rs : LocalService *)

\* SdConfig::default (runtime/config.rs), times in milliseconds
SdConfigDefault ==
    [initial_delay_min_ms |-> 10, initial_delay_max_ms |-> 100,
     repetition_base_delay_ms |-> 100, repetition_max |-> 3,
     cyclic_delay_ms |-> 1000, ttl |-> 16777215]

\* LocalService::with_config at instant t: Down, next transmission 3600 s away
with_config(entry, options, config, t) ==
    [entry |-> entry, endpoint_options |-> options,
     phase |-> "Down", phase_start |-> t,
     next_transmission |-> t + 3600 * 1000,
     repetition_count |-> 0,
     initial_delay_min |-> config.initial_delay_min_ms,
     initial_delay_max |-> config.initial_delay_max_ms,
     repetition_base_delay |-> config.repetition_base_delay_ms,
     repetition_max |-> config.repetition_max,
     cyclic_delay |-> config.cyclic_delay_ms,
     ttl |-> config.ttl]

\* LocalService::new
LocalService_new(entry, options, t) == with_config(entry, options, SdConfigDefault, t)

\* u128::saturating_sub
saturating_sub(a, b) == IF a > b THEN a - b ELSE 0

\* mutant: the delay is drawn from min ..= max
transition_to_initial_wait_inclusive(s, t, now_nanos) ==
    LET range == saturating_sub(s.initial_delay_max, s.initial_delay_min) + 1
    IN  [s EXCEPT !.phase = "InitialWait", !.phase_start = t,
                  !.next_transmission = t + s.initial_delay_min + (now_nanos % range)]

\* LocalService::transition_to_initial_wait at instant t, the wall clock's
\* sub-second nanoseconds being now_nanos
transition_to_initial_wait(s, t, now_nanos) ==
    LET range0 == saturating_sub(s.initial_delay_max, s.initial_delay_min)
        range  == IF range0 = 0 THEN 1 ELSE range0
        random_millis == s.initial_delay_min + (now_nanos % range)
    IN  [s EXCEPT !.phase = "InitialWait", !.phase_start = t,
                  !.next_transmission = t + random_millis]

\* LocalService::transition_to_repetition
transition_to_repetition(s, t) ==
    [s EXCEPT !.phase = "Repetition", !.phase_start = t,
              !.repetition_count = 0, !.next_transmission = t]

\* LocalService::transition_to_main
transition_to_main(s, t) ==
    [s EXCEPT !.phase = "Main", !.phase_start = t, !.next_transmission = t]

\* mutant: the backoff grows by one base delay per repetition
pow_linear(base, exp) == exp + 1

RECURSIVE pow(_, _)
\* u32::pow
pow(base, exp) == IF exp = 0 THEN 1 ELSE base * pow(base, exp - 1)

-----------------------------------------------------------------------------
(* sd/machine.rs : ServiceDiscovery *)

\* the listeners the runtime adds at load, one for each configured interface:
\* an IPv4 interface with a multicast group to send to, an IPv6 one, and a
\* dual-stack one
listeners ==
    [primary |-> [alias |-> "primary", local_ip_v4 |-> "127.0.0.1",
                  local_ip_v6 |-> "None", multicast_group_v4 |-> "224.0.0.1:30490"],
     backup  |-> [alias |-> "backup", local_ip_v4 |-> "None",
                  local_ip_v6 |-> "::1", multicast_group_v4 |-> "None"],
     dual    |-> [alias |-> "dual", local_ip_v4 |-> "192.168.1.5",
                  local_ip_v6 |-> "fd00::5", multicast_group_v4 |-> "224.0.0.1:30490"]]

Ipv4Endpoint(address, transport_proto, port) ==
    [type |-> "Ipv4Endpoint", address |-> address,
     transport_proto |-> transport_proto, port |-> port]

Ipv6Endpoint(address, transport_proto, port) ==
    [type |-> "Ipv6Endpoint", address |-> address,
     transport_proto |-> transport_proto, port |-> port]

Ipv4Multicast(address, transport_proto, port) ==
    [type |-> "Ipv4Multicast", address |-> address,
     transport_proto |-> transport_proto, port |-> port]

Ipv6Multicast(address, transport_proto, port) ==
    [type |-> "Ipv6Multicast", address |-> address,
     transport_proto |-> transport_proto, port |-> port]

\* Option<(IpAddr, u16)>: no multicast endpoint
NoMulticast == [kind |-> "None"]

SdEntry(entry_type, index_1, index_2, number_of_opts_1, number_of_opts_2, service_id, instance_id, major_version, ttl, minor_version) ==
    [entry_type |-> entry_type, index_1 |-> index_1, index_2 |-> index_2,
     number_of_opts_1 |-> number_of_opts_1, number_of_opts_2 |-> number_of_opts_2,
     service_id |-> service_id, instance_id |-> instance_id,
     major_version |-> major_version, ttl |-> ttl, minor_version |-> minor_version]

SdPacket(flags, entries, options) ==
    [flags |-> flags, entries |-> entries, options |-> options]

\* send_packet: one entry and its options, handed to every listener
send_packet(entry, options) == SdPacket(128, <<entry>>, options)

\* mutant: the options are taken from the first listener, whatever the alias
OfferOptions_primary(iface_alias, port, proto, multicast) ==
    <<Ipv4Endpoint(listeners["primary"].local_ip_v4, proto, port)>>

\* offer_service, lines 154-191: the options of an offer
OfferOptions(iface_alias, port, proto, multicast) ==
    (IF iface_alias \in DOMAIN listeners
     THEN (IF listeners[iface_alias].local_ip_v4 # "None"
           THEN <<Ipv4Endpoint(listeners[iface_alias].local_ip_v4, proto, port)>>
           ELSE <<>>)
          \o (IF listeners[iface_alias].local_ip_v6 # "None"
              THEN <<Ipv6Endpoint(listeners[iface_alias].local_ip_v6, proto, port)>>
              ELSE <<>>)
     ELSE <<>>)
    \o (IF multicast.kind = "V4" THEN <<Ipv4Multicast(multicast.ip, 17, multicast.port)>>
        ELSE IF multicast.kind = "V6" THEN <<Ipv6Multicast(multicast.ip, 17, multicast.port)>>
        ELSE <<>>)

\* mutant: a service that is not yet due is advanced all the same
poll_service_eager(s, t) ==
    IF s.phase = "Down" THEN [svc |-> s, send |-> FALSE]
    ELSE IF s.phase = "InitialWait"
    THEN [svc |-> transition_to_repetition(s, t), send |-> TRUE]
    ELSE IF s.phase = "Repetition"
    THEN [svc |-> IF s.repetition_count + 1 > s.repetition_max
                  THEN transition_to_main([s EXCEPT !.repetition_count = @ + 1], t)
                  ELSE [s EXCEPT !.repetition_count = @ + 1,
                                 !.next_transmission =
                                     t + s.repetition_base_delay * pow(2, s.repetition_count)],
          send |-> TRUE]
    ELSE [svc |-> [s EXCEPT !.next_transmission = t + s.cyclic_delay], send |-> TRUE]

\* mutant: a Down service is not skipped but announced like one in Main
poll_service_nodown(s, t) ==
    IF t >= s.next_transmission
    THEN IF s.phase = "InitialWait"
         THEN [svc |-> transition_to_repetition(s, t), send |-> TRUE]
         ELSE IF s.phase = "Repetition"
         THEN [svc |-> IF s.repetition_count + 1 > s.repetition_max
                       THEN transition_to_main([s EXCEPT !.repetition_count = @ + 1], t)
                       ELSE [s EXCEPT !.repetition_count = @ + 1,
                                      !.next_transmission =
                                          t + s.repetition_base_delay
                                              * pow(2, s.repetition_count)],
               send |-> TRUE]
         ELSE [svc |-> [s EXCEPT !.next_transmission = t + s.cyclic_delay],
               send |-> TRUE]
    ELSE [svc |-> s, send |-> FALSE]

\* poll, lines 320-353: one LocalService at the instant t the poll read;
\* [svc, send]: the service afterwards and should_send
poll_service(s, t) ==
    IF s.phase = "Down" THEN [svc |-> s, send |-> FALSE]
    ELSE IF t >= s.next_transmission
    THEN IF s.phase = "InitialWait"
         THEN [svc |-> transition_to_repetition(s, t), send |-> TRUE]
         ELSE IF s.phase = "Repetition"
         THEN LET counted == [s EXCEPT !.repetition_count = @ + 1]
              IN  [svc |-> IF counted.repetition_count > counted.repetition_max
                           THEN transition_to_main(counted, t)
                           ELSE [counted EXCEPT !.next_transmission =
                                    t + counted.repetition_base_delay
                                        * pow(2, counted.repetition_count - 1)],
                   send |-> TRUE]
         ELSE [svc |-> [s EXCEPT !.next_transmission = t + s.cyclic_delay],
               send |-> TRUE]
    ELSE [svc |-> s, send |-> FALSE]

\* poll, lines 355-369: the offer sent for a service
OfferPacket(s) ==
    send_packet([s.entry EXCEPT !.ttl = s.ttl, !.index_1 = 0,
                                !.number_of_opts_1 = Len(s.endpoint_options),
                                !.index_2 = 0, !.number_of_opts_2 = 0],
                s.endpoint_options)

RECURSIVE OffersIn(_, _, _)
\* poll, lines 320-376: the offers of the services found due, in the order
\* the map was iterated
OffersIn(order, stepped, j) ==
    IF j > Len(order) THEN <<>>
    ELSE (IF stepped[order[j]].send THEN <<OfferPacket(stepped[order[j]].svc)>> ELSE <<>>)
         \o OffersIn(order, stepped, j + 1)

\* mutant: a run reaching past the end contributes the options that exist
OptionRun_partial(options, start_idx, number_of_opts) ==
    SubSeq(options, start_idx + 1,
           IF start_idx + number_of_opts <= Len(options)
           THEN start_idx + number_of_opts ELSE Len(options))

\* handle_incoming_packet, lines 482-496: one option run of an entry
OptionRun(options, start_idx, number_of_opts) ==
    IF start_idx + number_of_opts <= Len(options)
    THEN SubSeq(options, start_idx + 1, start_idx + number_of_opts)
    ELSE <<>>

IsEndpoint(opt) == opt.type \in {"Ipv4Endpoint", "Ipv6Endpoint"}

\* mutant: only the first option of the run is looked at
SubscriberAddrs_first(run) ==
    IF run # <<>> /\ IsEndpoint(Head(run))
    THEN <<[address |-> Head(run).address, port |-> Head(run).port]>>
    ELSE <<>>

\* lines 533-541: the socket addresses of the endpoint options of a run
SubscriberAddrs(run) ==
    LET eps == SelectSeq(run, IsEndpoint)
    IN  [j \in 1..Len(eps) |-> [address |-> eps[j].address, port |-> eps[j].port]]

\* handle_incoming_packet, lines 459-581: one entry of a packet received at t;
\* sd is [remote, subs, pend, out]
handle_entry(sd, packet, entry, t) ==
    LET key   == <<entry.service_id, entry.instance_id>>
        egkey == <<entry.service_id, entry.minor_version \div 65536>>
    IN  IF entry.entry_type = "OfferService"
        THEN IF entry.ttl = 0
             THEN [sd EXCEPT !.remote = MapRemove(@, key)]
             ELSE [sd EXCEPT !.remote = MapPut(@, key,
                      [service_id |-> entry.service_id,
                       instance_id |-> entry.instance_id,
                       version_major |-> entry.major_version,
                       version_minor |-> entry.minor_version,
                       endpoint |-> OptionRun(packet.options, entry.index_1,
                                              entry.number_of_opts_1)
                                    \o OptionRun(packet.options, entry.index_2,
                                                 entry.number_of_opts_2),
                       last_seen |-> t,
                       ttl |-> entry.ttl])]
        ELSE IF entry.entry_type = "SubscribeEventgroup"
        THEN IF entry.ttl = 0 THEN sd
             ELSE LET addrs == SubscriberAddrs(OptionRun(packet.options, entry.index_1,
                                                         entry.number_of_opts_1))
                      ack   == SdEntry("SubscribeEventgroupAck", 0, 0, 0, 0,
                                       entry.service_id, entry.instance_id,
                                       entry.major_version, entry.ttl,
                                       entry.minor_version)
                  IN  IF addrs = <<>> THEN sd
                      ELSE [sd EXCEPT
                              !.subs = MapPut(@, egkey,
                                          (IF egkey \in DOMAIN @ THEN @[egkey] ELSE <<>>)
                                          \o addrs),
                              !.out = @ \o [j \in 1..Len(addrs) |-> send_packet(ack, <<>>)]]
        ELSE IF entry.entry_type = "SubscribeEventgroupAck"
        THEN [sd EXCEPT !.pend = MapPut(@, egkey, entry.ttl > 0)]
        ELSE sd

RECURSIVE handle_entries(_, _, _, _)
handle_entries(sd, packet, i, t) ==
    IF i > Len(packet.entries) THEN sd
    ELSE handle_entries(handle_entry(sd, packet, packet.entries[i], t), packet, i + 1, t)

\* ServiceDiscovery::handle_incoming_packet
handle_incoming_packet(sd, packet, t) == handle_entries(sd, packet, 1, t)

RECURSIVE handle_frames(_, _, _, _)
\* poll, lines 378-416: every datagram longer than a SOME/IP header that
\* parses as an SD packet is handled, in arrival order
handle_frames(sd, frames, i, t) ==
    IF i > Len(frames) THEN sd
    ELSE handle_frames(IF frames[i].len > 16 /\ frames[i].parses
                       THEN handle_incoming_packet(sd, frames[i].packet, t)
                       ELSE sd,
                       frames, i + 1, t)

\* ServiceDiscovery::find_service: the RemoteService, or "None"
find_service(remote, service_id, instance_id) ==
    IF <<service_id, instance_id>> \in DOMAIN remote
    THEN remote[<<service_id, instance_id>>] ELSE "None"

\* mutant: the first option is returned whatever its type
FirstEndpoint_any(endpoint) ==
    IF endpoint = <<>> THEN {}
    ELSE {[address |-> Head(endpoint).address, port |-> Head(endpoint).port,
           transport_proto |-> Head(endpoint).transport_proto]}

\* get_service, lines 243-250: the first endpoint option of a service
FirstEndpoint(endpoint) ==
    LET eps == SelectSeq(endpoint, IsEndpoint)
    IN  IF eps = <<>> THEN {}
        ELSE {[address |-> Head(eps).address, port |-> Head(eps).port,
               transport_proto |-> Head(eps).transport_proto]}

\* ServiceDiscovery::get_service: the set of values the call may return;
\* {} stands for None.  With instance 0xFFFF the map is iterated, in an order
\* the HashMap chooses, and the first service of that id with an endpoint wins
get_service(remote, service_id, instance_id) ==
    IF instance_id = 65535
    THEN UNION {FirstEndpoint(remote[k].endpoint) :
                    k \in {x \in DOMAIN remote : x[1] = service_id}}
    ELSE IF <<service_id, instance_id>> \in DOMAIN remote
    THEN FirstEndpoint(remote[<<service_id, instance_id>>].endpoint)
    ELSE {}

\* the orders a HashMap over the keys S may be iterated in
Orders(S) ==
    {o \in [1..Cardinality(S) -> S] : \A i, j \in 1..Cardinality(S) : i # j => o[i] # o[j]}

\* offer_service calls the model makes
MaxOffers == 2

\* the clock stops here: a service offered at 0 is in Main by 710
MaxTime == 720

\* ServiceDiscovery::offer_service
offer_service(service_id, instance_id, major, minor, iface_alias, port, proto, multicast, now_nanos) ==
    /\ offer_calls < MaxOffers
    /\ LET options == OfferOptions(iface_alias, port, proto, multicast)
           entry   == SdEntry("OfferService", 0, 0, Len(options), 0,
                              service_id, instance_id, major, 0, minor)
           service == transition_to_initial_wait(LocalService_new(entry, options, now),
                                                 now, now_nanos)
       IN  local_services' = MapPut(local_services, <<service_id, instance_id>>, service)
    /\ offer_calls' = offer_calls + 1
    /\ sdOut' = <<>>
    /\ UNCHANGED <<now, remote_services, rxOffers, subscriptions,
                   pending_subscriptions, notSd>>

\* ServiceDiscovery::stop_offer_service
stop_offer_service(service_id, instance_id) ==
    LET key == <<service_id, instance_id>>
    IN  /\ IF key \in DOMAIN local_services
           THEN /\ local_services' = [local_services EXCEPT ![key].phase = "Down"]
                /\ sdOut' = <<send_packet([local_services[key].entry EXCEPT !.ttl = 0],
                                          local_services[key].endpoint_options)>>
           ELSE /\ sdOut' = <<>>
                /\ UNCHANGED local_services
        /\ UNCHANGED <<now, offer_calls, remote_services, rxOffers,
                       subscriptions, pending_subscriptions, notSd>>

RECURSIVE OffersOf(_, _, _)
\* the OfferService entries for key k that a poll handles out of `incoming`,
\* in handling order, each with the options of its packet
OffersOf(incoming, k, i) ==
    IF i > Len(incoming) THEN <<>>
    ELSE (IF incoming[i].len > 16 /\ incoming[i].parses
          THEN LET p == incoming[i].packet
                   idx == {j \in 1..Len(p.entries) :
                              /\ p.entries[j].entry_type = "OfferService"
                              /\ p.entries[j].service_id = k[1]
                              /\ p.entries[j].instance_id = k[2]}
               IN  [j \in 1..Cardinality(idx) |->
                      LET e == CHOOSE x \in idx : Cardinality({y \in idx : y <= x}) = j
                      IN  [entry |-> p.entries[e], options |-> p.options]]
          ELSE <<>>)
         \o OffersOf(incoming, k, i + 1)

\* the keys the OfferService entries handled out of `incoming` name
OfferKeys(incoming) ==
    UNION {{<<incoming[i].packet.entries[j].service_id,
              incoming[i].packet.entries[j].instance_id>> :
               j \in {x \in 1..Len(incoming[i].packet.entries) :
                         incoming[i].packet.entries[x].entry_type = "OfferService"}} :
           i \in {x \in 1..Len(incoming) : incoming[x].len > 16 /\ incoming[x].parses}}

\* ServiceDiscovery::poll: the local services in iteration order `order`,
\* then the datagrams `incoming` waiting on the SD sockets
poll(order, incoming) ==
    LET stepped == [k \in DOMAIN local_services |-> poll_service(local_services[k], now)]
        sd == handle_frames([remote |-> remote_services, subs |-> subscriptions,
                             pend |-> pending_subscriptions,
                             out |-> OffersIn(order, stepped, 1)],
                            incoming, 1, now)
    IN  /\ order \in Orders(DOMAIN local_services)
        /\ local_services' = [k \in DOMAIN local_services |-> stepped[k].svc]
        /\ remote_services' = sd.remote
        /\ rxOffers' = [k \in DOMAIN rxOffers \cup OfferKeys(incoming) |->
                          LET offers == OffersOf(incoming, k, 1)
                          IN  IF offers = <<>> THEN rxOffers[k]
                              ELSE [entry |-> offers[Len(offers)].entry,
                                    options |-> offers[Len(offers)].options,
                                    at |-> now]]
        /\ subscriptions' = sd.subs
        /\ pending_subscriptions' = sd.pend
        /\ sdOut' = sd.out
        /\ UNCHANGED <<now, offer_calls, notSd>>

\* time passes until instant t
Tick(t) ==
    /\ t > now
    /\ t <= MaxTime
    /\ now' = t
    /\ sdOut' = <<>>
    /\ UNCHANGED <<offer_calls, local_services, remote_services, rxOffers,
                   subscriptions, pending_subscriptions, notSd>>

\* (service-id, instance-id) keys the application offers
LocalKeys == {<<4660, 1>>, <<4097, 1>>}

\* the port offers are made with
OfferPorts == {30500}

\* sub-second nanoseconds of the wall clock when an offer is made
NanosSamples == {0}

\* the instants time may pass to: the next transmission of a service.  A poll
\* made at the deadline of one service is late for those due before it.
Deadlines == {local_services[k].next_transmission : k \in DOMAIN local_services}

SdFrame(packet) == [len |-> 28 + 16 * Len(packet.entries), parses |-> TRUE, packet |-> packet]

\* a FindService entry, which the machine ignores
FindPacket == SdPacket(128, <<SdEntry("FindService", 0, 0, 0, 0, 4660, 1, 1, 3, 0)>>, <<>>)

\* a datagram with nothing after the SOME/IP header, and one that does not parse
ShortFrame == [len |-> 16, parses |-> TRUE, packet |-> FindPacket]
BadFrame == [len |-> 24, parses |-> FALSE, packet |-> FindPacket]

\* what waits on the SD sockets while the application offers its services
OfferIncoming == {<<>>, <<ShortFrame, BadFrame, SdFrame(FindPacket)>>}

\* the application offering and withdrawing services against the poll loop
OfferNext ==
    \/ \E key \in LocalKeys, port \in OfferPorts, now_nanos \in NanosSamples :
          offer_service(key[1], key[2], 1, 0, "primary", port, 17, NoMulticast, now_nanos)
    \/ \E key \in LocalKeys : stop_offer_service(key[1], key[2])
    \/ \E order \in Orders(DOMAIN local_services), incoming \in OfferIncoming :
          poll(order, incoming)
    \/ \E t \in Deadlines : Tick(t)

\* options remote offers carry
RxOpt1 == Ipv4Endpoint("10.0.0.1", 17, 30501)
RxOpt2 == Ipv6Endpoint("fd00::2", 6, 30502)
RxOpt3 == Ipv4Multicast("224.0.0.5", 17, 30490)

\* SD packets peers send: offers with one and with two option runs, an offer
\* whose first run reaches past the options and which is followed by another
\* entry, offers without an endpoint, and stop offers (TTL 0)
RxPackets ==
    {SdPacket(128, <<SdEntry("OfferService", 0, 0, 1, 0, 4660, 1, 1, 3, 0)>>, <<RxOpt1>>),
     SdPacket(128, <<SdEntry("OfferService", 0, 1, 1, 1, 4660, 1, 2, 5, 7)>>,
              <<RxOpt3, RxOpt2>>),
     SdPacket(128, <<SdEntry("OfferService", 1, 0, 2, 1, 4660, 1, 3, 9, 0),
                     SdEntry("OfferService", 0, 0, 1, 0, 4097, 1, 1, 3, 0)>>,
              <<RxOpt1, RxOpt2>>),
     SdPacket(128, <<SdEntry("OfferService", 0, 0, 1, 0, 4660, 2, 1, 3, 0)>>, <<RxOpt2>>),
     SdPacket(128, <<SdEntry("OfferService", 0, 0, 0, 0, 4660, 1, 1, 0, 0)>>, <<>>),
     SdPacket(128, <<SdEntry("OfferService", 0, 0, 0, 0, 4660, 65535, 1, 0, 0)>>, <<>>),
     SdPacket(128, <<SdEntry("OfferService", 0, 0, 0, 0, 4097, 1, 1, 0, 0)>>, <<>>),
     FindPacket}

\* keys remote offers name
RxKeys == {<<4660, 1>>, <<4660, 2>>, <<4660, 65535>>, <<4097, 1>>}

\* datagrams one poll may find waiting
MaxRx == 1

\* the last instant a remote offer is seen at
MaxRxTime == 2

RECURSIVE SeqsUpTo(_, _)
SeqsUpTo(S, n) ==
    IF n = 0 THEN {<<>>}
    ELSE LET shorter == SeqsUpTo(S, n - 1)
         IN  shorter \cup {Append(q, x) : q \in shorter, x \in S}

RemoteIncoming == SeqsUpTo({SdFrame(p) : p \in RxPackets} \cup {ShortFrame, BadFrame}, MaxRx)

\* the poll loop against the offers and stop offers of peers
RemoteNext ==
    \/ \E incoming \in RemoteIncoming : poll(<<>>, incoming)
    \/ \E t \in {now + 1} : t <= MaxRxTime /\ Tick(t)

-----------------------------------------------------------------------------
(* LocalService on its own, as the unit tests of sd/machine.rs drive it *)

\* the initial-delay bounds a LocalService is configured with
DelaySamples == {0, 10, 100}

LsConfigs ==
    {[SdConfigDefault EXCEPT !.initial_delay_min_ms = a, !.initial_delay_max_ms = b] :
        a \in DelaySamples, b \in DelaySamples}

\* sub-second nanoseconds: residues 0 and range - 1 for the ranges 10, 90 and
\* 100, a multiple of the range, and the largest value subsec_nanos returns
LsNanos == {0, 9, 10, 89, 99, 999999999}

\* the last instant a transition is made at
MaxLsTime == 3

\* create_dummy_entry of the unit tests
DummyEntry == SdEntry("OfferService", 0, 0, 0, 0, 4660, 1, 1, 0, 0)

LS_transition_to_initial_wait(now_nanos) ==
    /\ ls' = transition_to_initial_wait(ls, now, now_nanos)
    /\ UNCHANGED <<now, offer_calls, local_services, remote_services, rxOffers,
                   subscriptions, pending_subscriptions, sdOut, sessVars, rtVars, tpRun, tcp, srv, pool, threads>>

LS_transition_to_repetition ==
    /\ ls' = transition_to_repetition(ls, now)
    /\ UNCHANGED <<now, offer_calls, local_services, remote_services, rxOffers,
                   subscriptions, pending_subscriptions, sdOut, sessVars, rtVars, tpRun, tcp, srv, pool, threads>>

LS_transition_to_main ==
    /\ ls' = transition_to_main(ls, now)
    /\ UNCHANGED <<now, offer_calls, local_services, remote_services, rxOffers,
                   subscriptions, pending_subscriptions, sdOut, sessVars, rtVars, tpRun, tcp, srv, pool, threads>>

LsNext ==
    \/ \E now_nanos \in LsNanos : LS_transition_to_initial_wait(now_nanos)
    \/ LS_transition_to_repetition
    \/ LS_transition_to_main
    \/ \E t \in {now + 1} : t <= MaxLsTime /\ Tick(t)

-----------------------------------------------------------------------------
(* sd/machine.rs : eventgroup subscriptions *)

\* subscribe_eventgroup, lines 282-298: the endpoint options of a subscription
SubscribeOptions(iface_alias, port_v4, port_v6) ==
    IF iface_alias \in DOMAIN listeners
    THEN (IF listeners[iface_alias].local_ip_v4 # "None"
          THEN <<Ipv4Endpoint(listeners[iface_alias].local_ip_v4, 17, port_v4)>>
          ELSE <<>>)
         \o (IF listeners[iface_alias].local_ip_v6 # "None"
             THEN <<Ipv6Endpoint(listeners[iface_alias].local_ip_v6, 17, port_v6)>>
             ELSE <<>>)
    ELSE <<>>

\* the entry subscribe_eventgroup builds, lines 269-280
SubscribeEntry(service_id, instance_id, eventgroup_id, ttl) ==
    SdEntry("SubscribeEventgroup", 0, 0, 2, 0, service_id, instance_id, 1, ttl,
            eventgroup_id * 65536)

\* ServiceDiscovery::subscribe_eventgroup
subscribe_eventgroup(service_id, instance_id, eventgroup_id, ttl, iface_alias, port_v4, port_v6) ==
    /\ pending_subscriptions' =
          MapPut(pending_subscriptions, <<service_id, eventgroup_id>>, FALSE)
    /\ sdOut' = <<send_packet(SubscribeEntry(service_id, instance_id, eventgroup_id, ttl),
                              SubscribeOptions(iface_alias, port_v4, port_v6))>>
    /\ UNCHANGED <<now, offer_calls, local_services, remote_services, rxOffers,
                   subscriptions, notSd>>

\* ServiceDiscovery::unsubscribe_eventgroup: subscribe_eventgroup with TTL 0
\* and ports 0, then the key is taken out of pending_subscriptions
unsubscribe_eventgroup(service_id, instance_id, eventgroup_id, iface_alias) ==
    /\ pending_subscriptions' =
          MapRemove(MapPut(pending_subscriptions, <<service_id, eventgroup_id>>, FALSE),
                    <<service_id, eventgroup_id>>)
    /\ sdOut' = <<send_packet(SubscribeEntry(service_id, instance_id, eventgroup_id, 0),
                              SubscribeOptions(iface_alias, 0, 0))>>
    /\ UNCHANGED <<now, offer_calls, local_services, remote_services, rxOffers,
                   subscriptions, notSd>>

\* ServiceDiscovery::is_subscription_acked
is_subscription_acked(pend, service_id, eventgroup_id) ==
    IF <<service_id, eventgroup_id>> \in DOMAIN pend
    THEN pend[<<service_id, eventgroup_id>>] ELSE FALSE

\* (service-id, eventgroup-id) keys of the model
EgKeys == {<<4660, 1>>, <<4660, 2>>}

\* endpoint options subscribers send
EgOptA == Ipv4Endpoint("10.0.0.7", 17, 40000)
EgOptB == Ipv6Endpoint("fd00::7", 17, 40001)
EgOptM == Ipv4Multicast("224.0.0.5", 17, 30490)

\* an inbound eventgroup entry: its type, eventgroup, TTL and first option run
EgEntry(entry_type, eventgroup_id, ttl, index_1, number_of_opts_1) ==
    SdEntry(entry_type, index_1, 0, number_of_opts_1, 0, 4660, 1, 1, ttl,
            eventgroup_id * 65536)

\* SD packets about eventgroups: subscribes with one endpoint, with a multicast
\* option before the endpoint, with two endpoints, with a run that passes the
\* end of the options (what subscribe_eventgroup sends from a listener with one
\* address), with no endpoint option; a stop subscribe; acks and a nack
EgPackets ==
    {SdPacket(128, <<EgEntry("SubscribeEventgroup", 1, 100, 0, 1)>>, <<EgOptA>>),
     SdPacket(128, <<EgEntry("SubscribeEventgroup", 1, 100, 0, 2)>>, <<EgOptM, EgOptB>>),
     SdPacket(128, <<EgEntry("SubscribeEventgroup", 2, 50, 0, 2)>>, <<EgOptA, EgOptB>>),
     SdPacket(128, <<EgEntry("SubscribeEventgroup", 1, 100, 0, 2)>>, <<EgOptA>>),
     SdPacket(128, <<EgEntry("SubscribeEventgroup", 2, 100, 0, 1)>>, <<EgOptM>>),
     SdPacket(128, <<EgEntry("SubscribeEventgroup", 1, 0, 0, 1)>>, <<EgOptA>>),
     SdPacket(128, <<EgEntry("SubscribeEventgroupAck", 1, 100, 0, 0)>>, <<>>),
     SdPacket(128, <<EgEntry("SubscribeEventgroupAck", 1, 0, 0, 0)>>, <<>>),
     SdPacket(128, <<EgEntry("SubscribeEventgroupAck", 2, 100, 0, 0)>>, <<>>)}

\* what one poll finds waiting: nothing, or one of these packets
EgIncoming == {<<>>} \cup {<<SdFrame(p)>> : p \in EgPackets}

\* subscriber addresses the provider records before the model stops feeding it
MaxSubscribers == 3

RECURSIVE SumLen(_, _)
SumLen(m, keys) ==
    IF keys = {} THEN 0
    ELSE LET k == CHOOSE x \in keys : TRUE
         IN  Len(m[k]) + SumLen(m, keys \ {k})

\* a node that subscribes to eventgroups of peers and serves their subscribes
EgNext ==
    \/ \E k \in EgKeys : subscribe_eventgroup(k[1], 1, k[2], 100, "primary", 40000, 40001)
    \/ \E k \in EgKeys : unsubscribe_eventgroup(k[1], 1, k[2], "primary")
    \/ \E incoming \in EgIncoming :
          /\ SumLen(subscriptions, DOMAIN subscriptions) < MaxSubscribers
          /\ poll(<<>>, incoming)

-----------------------------------------------------------------------------
(* sd/machine.rs : remote services as their TTL runs out *)

\* the last instant of the TTL scenario, in milliseconds
MaxTtlTime == 5000

\* a second passes
TickSecond ==
    /\ now + 1000 <= MaxTtlTime
    /\ now' = now + 1000
    /\ sdOut' = <<>>
    /\ UNCHANGED <<offer_calls, local_services, remote_services, rxOffers,
                   subscriptions, pending_subscriptions, notSd>>

\* offers with a TTL of 3 s for two services, and a stop offer for the second
TtlPackets ==
    {SdPacket(128, <<SdEntry("OfferService", 0, 0, 1, 0, 4660, 1, 1, 3, 0)>>, <<RxOpt1>>),
     SdPacket(128, <<SdEntry("OfferService", 0, 0, 1, 0, 4097, 1, 1, 3, 0)>>, <<RxOpt2>>),
     SdPacket(128, <<SdEntry("OfferService", 0, 0, 0, 0, 4097, 1, 1, 0, 0)>>, <<>>)}

TtlKeys == {<<4660, 1>>, <<4097, 1>>}

\* what one poll finds waiting: nothing, or one of these packets
TtlIncoming == {<<>>} \cup {<<SdFrame(p)>> : p \in TtlPackets}

\* the runtime's loop calls poll
TtlPoll == \E incoming \in TtlIncoming : poll(<<>>, incoming)

TtlNext == TtlPoll \/ TickSecond

-----------------------------------------------------------------------------
(* sd/machine.rs : offers on several interfaces *)

\* the aliases offers are made with; no listener is registered as "missing"
OfferAliases == {"primary", "backup", "dual", "missing"}

\* ports and L4 protocols (UDP, TCP) of the offers
AliasPorts == {30500, 30509}
AliasProtos == {17, 6}

\* the multicast endpoint of the offer: none, an IPv4 group, an IPv6 group
OfferMulticasts ==
    {NoMulticast, [kind |-> "V4", ip |-> "224.0.0.5", port |-> 30490],
     [kind |-> "V6", ip |-> "ff02::5", port |-> 30490]}

\* the application offering services on any interface, and withdrawing them
ListenersNext ==
    \/ \E key \in LocalKeys, iface_alias \in OfferAliases, port \in AliasPorts,
          proto \in AliasProtos, multicast \in OfferMulticasts :
          offer_service(key[1], key[2], 1, 0, iface_alias, port, proto, multicast, 0)
    \/ \E key \in LocalKeys : stop_offer_service(key[1], key[2])

-----------------------------------------------------------------------------
(* codec/tp.rs : one payload segmented, then reassembled *)

\* lengths of the payload, and values of max_payload_per_segment
TpLens == {0, 1, 16, 17, 40, 48, 100}
TpMaxes == {0, 15, 16, 30, 32, 48, 1376}

\* the key of test_tp_reassembler_flow
TpMessageId == 4660
TpRequestId == 22136

\* iterations of segment_payload's loop the model follows
MaxSegments == 8

\* nothing called yet
TpIdle ==
    tpRun = [pc |-> "idle", payload |-> <<>>, max |-> 0, cursor |-> 0,
             segments |-> <<>>, fed |-> {}, order |-> <<>>, buffers |-> EmptyMap,
             last |-> [done |-> FALSE, payload |-> <<>>],
             assembled |-> [called |-> FALSE, ok |-> FALSE, payload |-> <<>>]]

\* mutant: a chunk takes all that remains
ChunkLen_rest(remaining, aligned_max) == remaining

\* segment_payload, lines 68-73: the length of the next chunk
ChunkLen(remaining, aligned_max) ==
    IF remaining > aligned_max THEN aligned_max ELSE remaining

\* segment_payload is called, lines 46-64: an empty payload returns at once
TpCall(len, max) ==
    /\ tpRun.pc = "idle"
    /\ tpRun' = IF len = 0
                THEN [tpRun EXCEPT !.pc = "returned", !.max = max,
                                   !.segments = <<[tp |-> TpHeader(0, FALSE), chunk |-> <<>>]>>]
                ELSE [tpRun EXCEPT !.pc = "loop", !.max = max,
                                   !.payload = Bytes("payload", len)]
    /\ UNCHANGED notTp

\* one test of the while condition, lines 66-84: an iteration, or the return
TpLoop ==
    /\ tpRun.pc = "loop"
    /\ Len(tpRun.segments) < MaxSegments
    /\ LET aligned_max == (tpRun.max \div TpAlignment) * TpAlignment
           total_len   == BLen(tpRun.payload)
           cursor      == tpRun.cursor
           chunk_len   == ChunkLen(total_len - cursor, aligned_max)
           more        == (cursor + chunk_len) < total_len
       IN  tpRun' = IF cursor < total_len
                    THEN [tpRun EXCEPT
                            !.segments = @ \o <<[tp |-> TpHeader(cursor, more),
                                                 chunk |-> BSlice(tpRun.payload, cursor, chunk_len)]>>,
                            !.cursor = cursor + chunk_len]
                    ELSE [tpRun EXCEPT !.pc = "returned"]
    /\ UNCHANGED notTp

\* one of the returned segments, not yet delivered, goes to process_segment
TpFeed(i) ==
    /\ tpRun.pc = "returned"
    /\ i \in (1..Len(tpRun.segments)) \ tpRun.fed
    /\ LET r == process_segment(tpRun.buffers, TpMessageId, TpRequestId,
                                tpRun.segments[i].tp, tpRun.segments[i].chunk)
       IN  tpRun' = [tpRun EXCEPT !.fed = @ \cup {i}, !.order = Append(@, i),
                                  !.buffers = r.buffers,
                                  !.last = [done |-> r.done, payload |-> r.payload]]
    /\ UNCHANGED notTp

RECURSIVE OffsetMap(_)
\* test_reassembly, lines 221-224: the returned segments put into a BTreeMap
OffsetMap(segments) ==
    IF segments = <<>> THEN EmptyMap
    ELSE LET n == Len(segments)
         IN  MapPut(OffsetMap(SubSeq(segments, 1, n - 1)),
                    segments[n].tp.offset, segments[n].chunk)

\* reassemble_payload over the map of the returned segments
TpReassemble ==
    /\ tpRun.pc = "returned"
    /\ ~tpRun.assembled.called
    /\ LET r == reassemble_payload(OffsetMap(tpRun.segments))
       IN  tpRun' = [tpRun EXCEPT !.assembled = [called |-> TRUE, ok |-> r.ok,
                                                 payload |-> r.payload]]
    /\ UNCHANGED notTp

TpNext ==
    \/ \E len \in TpLens, max \in TpMaxes : TpCall(len, max)
    \/ TpLoop
    \/ \E i \in 1..MaxSegments : TpFeed(i)
    \/ TpReassemble

-----------------------------------------------------------------------------
(* codec/tp.rs : a reassembler fed with any segments under one key *)

\* the segments a peer may send, in any order and more than once: a message of
\* 40 bytes in three segments, a short last segment at 16, a message in one
\* segment, a segment beyond the end, a first segment of 32 bytes, and three
\* segments of 65520 bytes with More set
StreamSegments ==
    <<[tp |-> TpHeader(0, TRUE),       chunk |-> Bytes("a", 16)],
      [tp |-> TpHeader(16, TRUE),      chunk |-> Bytes("b", 16)],
      [tp |-> TpHeader(32, FALSE),     chunk |-> Bytes("c", 8)],
      [tp |-> TpHeader(16, FALSE),     chunk |-> Bytes("d", 8)],
      [tp |-> TpHeader(0, FALSE),      chunk |-> Bytes("e", 4)],
      [tp |-> TpHeader(48, TRUE),      chunk |-> Bytes("f", 16)],
      [tp |-> TpHeader(0, TRUE),       chunk |-> Bytes("g", 32)],
      [tp |-> TpHeader(65520, TRUE),   chunk |-> Bytes("h", 65520)],
      [tp |-> TpHeader(131040, TRUE),  chunk |-> Bytes("i", 65520)],
      [tp |-> TpHeader(0, TRUE),       chunk |-> Bytes("j", 65520)]>>

\* process_segment calls the model makes
MaxDeliveries == 4

\* process_segment is called with one of these segments
TpDeliver(i) ==
    /\ tpRun.pc \in {"idle", "stream"}
    /\ Len(tpRun.order) < MaxDeliveries
    /\ LET r == process_segment(tpRun.buffers, TpMessageId, TpRequestId,
                                StreamSegments[i].tp, StreamSegments[i].chunk)
       IN  tpRun' = [tpRun EXCEPT !.pc = "stream", !.order = Append(@, i),
                                  !.buffers = r.buffers,
                                  !.last = [done |-> r.done, payload |-> r.payload]]
    /\ UNCHANGED notTp

StreamNext == \E i \in 1..Len(StreamSegments) : TpDeliver(i)

-----------------------------------------------------------------------------
(* runtime/mod.rs : the large-payload client *)

\* the service of examples/large_payload_test, its GET and ECHO methods
LargeService == 20480
LargeMethods == {1, 2}

\* the GET request has no payload, the ECHO request 5000 bytes
LargeRequest(method_id) == IF method_id = 1 THEN <<>> ELSE Bytes("large", 5000)

\* the client's calls, each sent message by message
LargeNext ==
    \/ \E mid \in LargeMethods : SRW_Begin(LargeService, mid, LargeRequest(mid), "v4")
    \/ \E i \in 1..Len(calls) : SRW_Insert(i)
    \/ \E i \in 1..Len(calls), ok \in BOOLEAN : SRW_Send(i, ok)
    \/ \E i \in 1..Len(calls) : SRW_GiveUp(i)
    \/ \E i \in 1..Len(calls) : SRW_Drop(i)

-----------------------------------------------------------------------------
(* transport/tcp.rs : TcpTransport, framing of the peer's byte stream *)

\* SOMEIP_HEADER_PREFIX: the bytes up to the end of the length field
SomeipHeaderPrefix == 8

\* let mut tmp = [0u8; 4096]: the most one read returns
TcpReadMax == 4096

\* the k-th message of a stream, `total` bytes long: its bytes are a run whose
\* source names the message and the value of its length field, total - 8
Message(k, total) == Bytes(<<k, total>>, total)

\* the u32 at bytes 4..8 of a buffer: the length field when the buffer starts
\* with a message; payloads are zero bytes, so it is 0 when these are bytes
\* of a payload
LengthField(buf) ==
    LET word == BSlice(buf, 4, 4)
    IN  IF Len(word) = 1 /\ Head(word).off = 4
        THEN Head(word).src[2] - SomeipHeaderPrefix
        ELSE 0

\* someip_message_len: the size of the message heading buf, or -1 for None
someip_message_len(buf) ==
    IF BLen(buf) < SomeipHeaderPrefix THEN -1
    ELSE LET total == SomeipHeaderPrefix + LengthField(buf)
         IN  IF BLen(buf) >= total THEN total ELSE -1

\* what a peer sends, as the sizes of its messages: two small ones, one past
\* the read buffer, one past a caller's buffer of 128 bytes, a single one
TcpStreams == {<<16, 28>>, <<28, 5000>>, <<200, 16>>, <<28>>}

RECURSIVE WireOf(_, _)
\* the bytes of the messages from the k-th on, in order
WireOf(stream, k) ==
    IF k > Len(stream) THEN <<>>
    ELSE Message(k, stream[k]) \o WireOf(stream, k + 1)

\* sizes of the buffer the caller passes: that of the unit tests, that of run
TcpBufferSizes == {128, 4096}

\* receive calls the model makes
MaxReceives == 5

\* no connection yet
TcpIdle ==
    tcp = [pc |-> "idle", msgs |-> <<>>, wire |-> <<>>, recv_buf |-> <<>>,
           last |-> [kind |-> "none", data |-> <<>>], got |-> <<>>, calls |-> 0]

\* TcpTransport::connect; the peer will send one of the streams
TcpConnect(stream) ==
    /\ tcp.pc = "idle"
    /\ tcp' = [tcp EXCEPT !.pc = "open", !.msgs = stream, !.wire = WireOf(stream, 1)]
    /\ UNCHANGED notTcp

Min(a, b) == IF a < b THEN a ELSE b

\* what stream.read may return: some of the bytes on the wire, WouldBlock,
\* another error, or 0 once the peer has sent everything and closed
TcpReads(wire) ==
    LET most == Min(BLen(wire), TcpReadMax)
    IN  {[kind |-> "data", n |-> n] : n \in {m \in {5, 16, most} : 1 <= m /\ m <= most}}
        \cup {[kind |-> "wouldblock", n |-> 0], [kind |-> "error", n |-> 0]}
        \cup (IF wire = <<>> THEN {[kind |-> "eof", n |-> 0]} ELSE {})

\* receive, lines 68-71: copy into the caller's buffer, drain the message
TakeMessage(buf, msg_len, buffer_len) ==
    LET copy_len == Min(msg_len, buffer_len)
    IN  [out  |-> BSlice(buf, 0, copy_len),
         rest |-> BSlice(buf, msg_len, BLen(buf) - msg_len)]

\* TcpTransport::receive with a buffer of buffer_len bytes, the read giving rd
TcpReceive(buffer_len, rd) ==
    /\ tcp.pc = "open"
    /\ tcp.calls < MaxReceives
    /\ rd \in TcpReads(tcp.wire)
    /\ LET buf     == BCat(tcp.recv_buf, BSlice(tcp.wire, 0, rd.n))
           msg_len == someip_message_len(buf)
           taken   == TakeMessage(buf, msg_len, buffer_len)
       IN  tcp' = IF rd.kind = "eof"
                  THEN [tcp EXCEPT !.calls = @ + 1,
                                   !.last = [kind |-> "ConnectionReset", data |-> <<>>]]
                  ELSE IF rd.kind = "error"
                  THEN [tcp EXCEPT !.calls = @ + 1,
                                   !.last = [kind |-> "Err", data |-> <<>>]]
                  ELSE IF msg_len >= 0
                  THEN [tcp EXCEPT !.calls = @ + 1,
                                   !.wire = BSlice(@, rd.n, BLen(@) - rd.n),
                                   !.recv_buf = taken.rest,
                                   !.last = [kind |-> "Ok", data |-> taken.out],
                                   !.got = Append(@, taken.out)]
                  ELSE [tcp EXCEPT !.calls = @ + 1,
                                   !.wire = BSlice(@, rd.n, BLen(@) - rd.n),
                                   !.recv_buf = buf,
                                   !.last = [kind |-> "WouldBlock", data |-> <<>>]]
    /\ UNCHANGED notTcp

TcpNext ==
    \/ \E stream \in TcpStreams : TcpConnect(stream)
    \/ \E buffer_len \in TcpBufferSizes, rd \in TcpReads(tcp.wire) :
          TcpReceive(buffer_len, rd)

-----------------------------------------------------------------------------
(* transport/tcp.rs : TcpServer and TcpServerTransport *)

\* the addresses of the peers that connect
Peers == {"p1", "p2"}

\* what each peer sends before it closes: one small message, or a message past
\* a caller's buffer of 128 bytes followed by a small one
PeerStream(addr) == IF addr = "p1" THEN <<28>> ELSE <<200, 16>>

\* calls of receive_from and of TcpServerTransport::receive the model makes
MaxSrvCalls == 3

\* TcpServer::bind
SrvIdle ==
    srv = [connections |-> {}, tcp_buffers |-> EmptyMap,
           wire |-> [addr \in Peers |-> <<>>], waiting |-> {},
           last |-> [op |-> "none", kind |-> "none", addr |-> "none", data |-> <<>>],
           calls |-> 0]

\* a peer connects to the listener
PeerConnects(addr) ==
    /\ addr \notin srv.connections \cup srv.waiting
    /\ srv' = [srv EXCEPT !.waiting = @ \cup {addr},
                          !.wire[addr] = WireOf(PeerStream(addr), 1)]
    /\ UNCHANGED notSrv

\* TcpServer::accept of the waiting connection addr: [connections, tcp_buffers]
accept(s, addr) ==
    [s EXCEPT !.connections = @ \cup {addr},
              !.tcp_buffers = MapPutIfAbsent(@, addr, <<>>),
              !.waiting = @ \ {addr}]

RECURSIVE AcceptAll(_)
\* TcpServer::poll_accept: accept until the listener would block
AcceptAll(s) ==
    IF s.waiting = {} THEN s
    ELSE AcceptAll(accept(s, CHOOSE addr \in s.waiting : TRUE))

\* TcpServer::disconnect
disconnect(s, addr) ==
    [s EXCEPT !.connections = @ \ {addr}, !.tcp_buffers = MapRemove(@, addr)]

\* TcpServer::send_to: the stream is written to only if addr is connected
send_to(s, addr) == IF addr \in s.connections THEN "Ok" ELSE "NotConnected"

\* the application calls accept
SrvAccept ==
    /\ srv.waiting # {}
    /\ \E addr \in srv.waiting :
          srv' = [accept(srv, addr) EXCEPT
                    !.last = [op |-> "accept", kind |-> "Ok", addr |-> addr, data |-> <<>>]]
    /\ UNCHANGED notSrv

\* the application calls send_to
SrvSendTo(addr) ==
    /\ srv' = [srv EXCEPT !.last = [op |-> "send_to", kind |-> send_to(srv, addr),
                                    addr |-> addr, data |-> <<>>]]
    /\ UNCHANGED notSrv

\* TcpServer::receive_from with a buffer of buffer_len bytes, the read giving rd
receive_from(buffer_len, addr, rd) ==
    /\ srv.calls < MaxSrvCalls
    /\ rd \in TcpReads(srv.wire[addr])
    /\ LET result(kind, data) == [op |-> "receive_from", kind |-> kind,
                                  addr |-> addr, data |-> data]
           called == [srv EXCEPT !.calls = @ + 1]
       IN  srv' =
             IF addr \notin srv.connections
             THEN [called EXCEPT !.last = result("NotConnected", <<>>)]
             ELSE IF rd.kind = "eof"
             THEN [called EXCEPT !.tcp_buffers = MapRemove(@, addr),
                                 !.last = result("ConnectionReset", <<>>)]
             ELSE IF rd.kind = "error"
             THEN [called EXCEPT !.last = result("Err", <<>>)]
             ELSE LET old  == IF addr \in DOMAIN srv.tcp_buffers
                              THEN srv.tcp_buffers[addr] ELSE <<>>
                      buf  == BCat(old, BSlice(srv.wire[addr], 0, rd.n))
                      read == [called EXCEPT
                                 !.wire[addr] = BSlice(@, rd.n, BLen(@) - rd.n),
                                 !.tcp_buffers = IF rd.kind = "data" \/ addr \in DOMAIN @
                                                 THEN MapPut(@, addr, buf) ELSE @]
                      msg_len == someip_message_len(buf)
                  IN  IF addr \in DOMAIN read.tcp_buffers /\ msg_len >= 0
                      THEN LET taken == TakeMessage(buf, msg_len, buffer_len)
                           IN  [read EXCEPT !.tcp_buffers[addr] = taken.rest,
                                            !.last = result("Ok", taken.out)]
                      ELSE [read EXCEPT !.last = result("WouldBlock", <<>>)]
    /\ UNCHANGED notSrv

RECURSIVE ReadClients(_, _, _)
\* TcpServerTransport::receive, lines 121-129: one raw read from each client
ReadClients(s, clients, rds) ==
    IF clients = <<>> THEN s
    ELSE LET addr == Head(clients)
             rd   == rds[addr]
             next ==
               IF rd.kind \in {"eof", "error"} THEN disconnect(s, addr)
               ELSE IF rd.kind = "data"
               THEN [s EXCEPT
                       !.wire[addr] = BSlice(@, rd.n, BLen(@) - rd.n),
                       !.tcp_buffers =
                           MapPut(@, addr,
                                  BCat(IF addr \in DOMAIN @ THEN @[addr] ELSE <<>>,
                                       BSlice(s.wire[addr], 0, rd.n)))]
               ELSE s
         IN  ReadClients(next, Tail(clients), rds)

\* check_buffer
check_buffer(s, addr) ==
    IF addr \in DOMAIN s.tcp_buffers THEN someip_message_len(s.tcp_buffers[addr]) ELSE -1

RECURSIVE FirstComplete(_, _)
\* lines 133-139: the first client, in the order of the list, whose buffer
\* holds a complete message; "none" when there is none
FirstComplete(s, clients) ==
    IF clients = <<>> THEN "none"
    ELSE IF check_buffer(s, Head(clients)) >= 0 THEN Head(clients)
    ELSE FirstComplete(s, Tail(clients))

\* drain_buffer(addr, len, out): [out, rest]
drain_buffer(buf, len, out_len) ==
    [out  |-> BSlice(buf, 0, Min(Min(len, out_len), BLen(buf))),
     rest |-> BSlice(buf, len, BLen(buf) - len)]

\* TcpServerTransport::receive; clients is connected_clients() in the order
\* the HashMap yields, rds the result of the raw read from each of them
ServerReceive(buffer_len, clients, rds) ==
    /\ srv.calls < MaxSrvCalls
    /\ LET accepted == AcceptAll(srv)
       IN  /\ clients \in Orders(accepted.connections)
           /\ rds \in [accepted.connections -> UNION {TcpReads(srv.wire[a]) : a \in Peers}]
           /\ \A a \in accepted.connections : rds[a] \in TcpReads(srv.wire[a])
           /\ LET read  == ReadClients(accepted, clients, rds)
                  addr  == FirstComplete(read, clients)
                  called == [read EXCEPT !.calls = @ + 1]
              IN  srv' =
                    IF addr = "none"
                    THEN [called EXCEPT !.last = [op |-> "receive", kind |-> "WouldBlock",
                                                  addr |-> "none", data |-> <<>>]]
                    ELSE LET copy_len == Min(check_buffer(read, addr), buffer_len)
                             taken    == drain_buffer(read.tcp_buffers[addr], copy_len,
                                                      buffer_len)
                         IN  [called EXCEPT !.tcp_buffers[addr] = taken.rest,
                                            !.last = [op |-> "receive", kind |-> "Ok",
                                                      addr |-> addr, data |-> taken.out]]
    /\ UNCHANGED notSrv

SrvNext ==
    \/ \E addr \in Peers : PeerConnects(addr)
    \/ SrvAccept
    \/ \E addr \in Peers : SrvSendTo(addr)
    \/ \E buffer_len \in TcpBufferSizes, addr \in Peers :
          \E rd \in TcpReads(srv.wire[addr]) : receive_from(buffer_len, addr, rd)
    \/ \E buffer_len \in TcpBufferSizes, clients \in Orders(Peers) \cup Orders({"p1"})
                                                  \cup Orders({"p2"}) \cup {<<>>} :
          \E rds \in [{clients[i] : i \in 1..Len(clients)} ->
                        UNION {TcpReads(srv.wire[a]) : a \in Peers}] :
             ServerReceive(buffer_len, clients, rds)

-----------------------------------------------------------------------------
(* runtime/threadpool.rs : ThreadPool *)

\* the keys jobs are submitted with; NoKey is execute(f, None)
Keys == {"a", "b"}
NoKey == "none"

\* sizes of the pools created
PoolSizes == {1, 2, 3}

\* DefaultHasher::new() has fixed keys: finish() is one function of the key,
\* of which only the residues modulo the pool size matter
MaxHash == 2

\* jobs the model submits
MaxJobs == 3

\* before ThreadPool::new
PoolIdle ==
    pool = [pc |-> "none", size |-> 0, hash |-> [k \in Keys |-> 0], queues |-> <<>>,
            wpc |-> <<>>, cur |-> <<>>, jobs |-> <<>>, idx |-> 0, backlog |-> 0]

\* ThreadPool::new(size): one channel and one worker thread per index
PoolNew(size, hash) ==
    /\ pool.pc = "none"
    /\ size > 0
    /\ pool' = [pool EXCEPT !.pc = "running", !.size = size, !.hash = hash,
                            !.queues = [i \in 1..size |-> <<>>],
                            !.wpc = [i \in 1..size |-> "recv"],
                            !.cur = [i \in 1..size |-> 0]]
    /\ UNCHANGED notPool

\* a send that puts the message in front of the channel
send_front(q, msg) == <<msg>> \o q

\* mpsc::Sender::send: the channel is unbounded and keeps the order of sends
send(q, msg) == Append(q, msg)

\* a choice of worker that spreads the jobs whatever their key
worker_idx_spread(p, key) == Len(p.jobs) % p.size

\* execute, lines 91-104: the worker a job with this key is sent to
worker_idx(p, key) == IF key # NoKey THEN p.hash[key] % p.size ELSE 0

\* ThreadPool::execute(f, key)
execute(key) ==
    /\ pool.pc = "running"
    /\ Len(pool.jobs) < MaxJobs
    /\ LET w  == worker_idx(pool, key)
           id == Len(pool.jobs) + 1
       IN  pool' = [pool EXCEPT
                      !.jobs = Append(@, [key |-> key, worker |-> w, status |-> "queued"]),
                      !.queues[w + 1] = send(@, [kind |-> "NewJob", job |-> id])]
    /\ UNCHANGED notPool

\* Worker::new, lines 27-40: the thread of worker id receives the next message
WorkerRecv(id) ==
    /\ pool.pc # "none"
    /\ id + 1 \in DOMAIN pool.wpc
    /\ pool.wpc[id + 1] = "recv"
    /\ pool.queues[id + 1] # <<>>
    /\ LET message == Head(pool.queues[id + 1])
           taken   == [pool EXCEPT !.queues[id + 1] = Tail(@)]
       IN  pool' = IF message.kind = "NewJob"
                   THEN [taken EXCEPT !.wpc[id + 1] = "job", !.cur[id + 1] = message.job,
                                      !.jobs[message.job].status = "running"]
                   ELSE [taken EXCEPT !.wpc[id + 1] = "exited"]
    /\ UNCHANGED notPool

\* Worker::new, line 31: the job the worker is running returns
WorkerJobReturns(id) ==
    /\ id + 1 \in DOMAIN pool.wpc
    /\ pool.wpc[id + 1] = "job"
    /\ pool' = [pool EXCEPT !.wpc[id + 1] = "recv", !.cur[id + 1] = 0,
                            !.jobs[pool.cur[id + 1]].status = "done"]
    /\ UNCHANGED notPool

\* the jobs of p that have not run to completion
NotDone(p) == {j \in DOMAIN p.jobs : p.jobs[j].status # "done"}

\* Drop for ThreadPool, lines 114-116: Terminate is sent to the next sender
DropTerminate ==
    /\ pool.pc \in {"running", "terminate"}
    /\ LET i == IF pool.pc = "running" THEN 1 ELSE pool.idx
       IN  pool' = [pool EXCEPT
                      !.queues[i] = send(@, [kind |-> "Terminate", job |-> 0]),
                      !.backlog = IF pool.pc = "running"
                                  THEN Cardinality(NotDone(pool)) ELSE @,
                      !.pc = IF i = pool.size THEN "join" ELSE "terminate",
                      !.idx = IF i = pool.size THEN 1 ELSE i + 1]
    /\ UNCHANGED notPool

\* Drop for ThreadPool, lines 118-122: the thread of the next worker is joined
DropJoin ==
    /\ pool.pc = "join"
    /\ pool.wpc[pool.idx] = "exited"
    /\ pool' = [pool EXCEPT !.pc = IF pool.idx = pool.size THEN "dropped" ELSE "join",
                            !.idx = IF pool.idx = pool.size THEN @ ELSE @ + 1]
    /\ UNCHANGED notPool

\* what the worker threads do
WorkerNext == \E id \in 0..2 : WorkerRecv(id) \/ WorkerJobReturns(id)

\* what the thread dropping the pool does
DropNext == DropTerminate \/ DropJoin

PoolNext ==
    \/ \E size \in PoolSizes, hash \in [Keys -> 0..MaxHash] : PoolNew(size, hash)
    \/ \E key \in Keys \cup {NoKey} : execute(key)
    \/ WorkerNext
    \/ DropNext

-----------------------------------------------------------------------------
(* runtime/mod.rs : SomeIpRuntime::offer_service over the providing config *)

\* the endpoints of the configuration: [protocol, port]
endpoints ==
    [ep_udp |-> [protocol |-> "udp", port |-> 30500],
     ep_tcp |-> [protocol |-> "TCP", port |-> 30509]]

\* the providing entries of the configuration; offer_on maps an interface
\* alias to the name of an endpoint
providing ==
    [radar  |-> [service_id |-> 4660, instance_id |-> 1, major_version |-> 1,
                 minor_version |-> 0,
                 offer_on |-> [primary |-> "ep_udp", dual |-> "ep_tcp"]],
     camera |-> [service_id |-> 4097, instance_id |-> 1, major_version |-> 1,
                 minor_version |-> 0,
                 offer_on |-> [backup |-> "ep_udp"]],
     lidar  |-> [service_id |-> 4098, instance_id |-> 1, major_version |-> 1,
                 minor_version |-> 0,
                 offer_on |-> [primary |-> "ep_udp", backup |-> "ep_gone",
                               dual |-> "ep_tcp"]]]

\* lines 485-490: the protocol id and the port of an endpoint name
EndpointOf(endpoint_name) ==
    IF endpoint_name \in DOMAIN endpoints
    THEN [proto_id   |-> IF endpoints[endpoint_name].protocol \in {"tcp", "TCP"}
                         THEN 6 ELSE 17,
          final_port |-> endpoints[endpoint_name].port]
    ELSE [proto_id |-> 17, final_port |-> 0]

\* ServiceDiscovery::offer_service on the map local: the map afterwards
SdOffer(local, service_id, instance_id, major, minor, iface_alias, port, proto, multicast, now_nanos) ==
    LET options == OfferOptions(iface_alias, port, proto, multicast)
        entry   == SdEntry("OfferService", 0, 0, Len(options), 0,
                           service_id, instance_id, major, 0, minor)
        service == transition_to_initial_wait(LocalService_new(entry, options, now),
                                              now, now_nanos)
    IN  MapPut(local, <<service_id, instance_id>>, service)

RECURSIVE OfferOnEach(_, _, _, _)
\* lines 480-505: the loop over offer_on, in the order the map is iterated
OfferOnEach(local, prov_cfg, order, j) ==
    IF j > Len(order) THEN local
    ELSE LET ep == EndpointOf(prov_cfg.offer_on[order[j]])
         IN  OfferOnEach(SdOffer(local, prov_cfg.service_id, prov_cfg.instance_id,
                                 prov_cfg.major_version, prov_cfg.minor_version,
                                 order[j], ep.final_port, ep.proto_id, NoMulticast, 0),
                         prov_cfg, order, j + 1)

\* SomeIpRuntime::offer_service(alias, instance)
Runtime_offer_service(alias, order) ==
    /\ offer_calls < MaxOffers
    /\ alias \in DOMAIN providing
    /\ order \in Orders(DOMAIN providing[alias].offer_on)
    /\ services' = services \cup {providing[alias].service_id}
    /\ local_services' = OfferOnEach(local_services, providing[alias], order, 1)
    /\ offer_calls' = offer_calls + 1
    /\ sdOut' = <<>>
    /\ rtOut' = NoOut
    /\ UNCHANGED <<now, remote_services, rxOffers, subscriptions, pending_subscriptions,
                   session_manager, udp_transports, pending_requests, tp_reassembler,
                   calls, sessObj, counters, sessRet, sessLast, ls, tpRun, tcp, srv, pool, threads>>

\* the application offering its configured services against the poll loop
ProvideNext ==
    \/ \E alias \in DOMAIN providing :
          \E order \in Orders(DOMAIN providing[alias].offer_on) :
             Runtime_offer_service(alias, order)
    \/ \E order \in Orders(DOMAIN local_services) : poll(order, <<>>)
    \/ \E t \in Deadlines : Tick(t)

-----------------------------------------------------------------------------
(* runtime/mod.rs : callers while the session counter of a pair wraps *)

\* lengths of the runs of calls whose send fails: all ids but one
FailedRuns == {U16 - 2}

\* session id s is among the n ids allocated from val on, 0xFFFF followed by 1
InRun(s, val, n) == ((s - val) % (U16 - 1)) < n

\* n calls of send_request_and_wait for one pair, one after the other, the
\* transport failing every send: each call allocates the next id, inserts its
\* Sender under its key (lines 516-528), removes the key and returns None
\* (lines 558-563).  Followed are the runs that bring the counter back to one
\* of the first ids.
SRW_FailedRun(service_id, method_id, n) ==
    LET key  == <<service_id, method_id>>
        val  == IF key \in DOMAIN session_manager THEN session_manager[key] ELSE 1
        next == ((val - 1 + n) % (U16 - 1)) + 1
        hit  == {k \in DOMAIN pending_requests :
                    k[1] = service_id /\ k[2] = method_id /\ InRun(k[3], val, n)}
    IN  /\ next <= MaxCalls
        /\ session_manager' = MapPut(session_manager, key, next)
        /\ pending_requests' = [k \in DOMAIN pending_requests \ hit |-> pending_requests[k]]
        /\ calls' = [i \in DOMAIN calls |->
                        IF calls[i].chan = "open" /\ \E k \in hit : pending_requests[k] = i
                        THEN [calls[i] EXCEPT !.chan = "closed"]
                        ELSE calls[i]]
        /\ rtOut' = NoOut
        /\ UNCHANGED <<udp_transports, services, tp_reassembler, notRt>>

\* callers of one method, some of whose sends fail
WrapNext ==
    \/ \E p \in ReqPayloads : SRW_Begin(4660, 1, p, "v4")
    \/ \E i \in 1..Len(calls) : SRW_Insert(i)
    \/ \E i \in 1..Len(calls), ok \in BOOLEAN : SRW_Send(i, ok)
    \/ \E i \in 1..Len(calls) : SRW_GiveUp(i)
    \/ \E n \in FailedRuns : SRW_FailedRun(4660, 1, n)

-----------------------------------------------------------------------------
(* runtime/mod.rs : the threads of one runtime and the locks they take.      *)
(* A function is the sequence of its lock acquisitions, guard drops, socket  *)
(* calls and handler calls; the in-memory work between them is part of the   *)
(* step before it.                                                           *)

\* the Mutex and RwLock fields of SomeIpRuntime, and the Mutex of TcpServerTransport
Locks == {"sd", "services", "pending_requests", "tp_reassembler", "session_manager", "server"}

\* the event loop and the callers of the runtime's public functions
Callers == {"offer_service", "register_notification_handler", "subscribe_eventgroup", "get_client", "send_request_and_wait"}
Threads == {"run"} \cup Callers

\* what one pass of the event loop finds on the transport it reads
RunKinds == {"none", "tp_stored", "tp_request", "response", "notification", "request"}
RunBranches == {"udp", "tcp"} \X RunKinds

\* a socket call
Io(what) == [op |-> "io", on |-> what]

\* { let guard = l.lock() / l.read() / l.write(); body }: the guard is dropped at the end of its block
Scoped(mode, l, body) == <<[op |-> mode, on |-> l]>> \o body \o <<[op |-> "drop", on |-> l]>>

\* a handler that calls register_notification_handler of the runtime that runs it
handle_calls_back ==
    <<[op |-> "handler", on |-> "RequestHandler::handle"]>> \o Scoped("write", "services", <<>>)

\* handler.handle(&header, effective_payload), a handler that does not call the runtime
handle == <<[op |-> "handler", on |-> "RequestHandler::handle"]>>

\* run, step 1: { let mut sd = self.sd.lock().unwrap(); sd.poll(); }; poll sends the due
\* offers with send_packet and reads the SD sockets
SdPoll == Scoped("lock", "sd", <<Io("ServiceDiscovery::poll")>>)

\* transport.receive: TcpServerTransport::receive accepts and reads under its server mutex
TransportReceive(transport) ==
    IF transport = "tcp" THEN Scoped("lock", "server", <<Io("TcpServer::raw_receive_from")>>)
    ELSE <<Io("UdpTransport::receive")>>

\* transport.send: TcpServerTransport::send writes under its server mutex
TransportSend(transport) ==
    IF transport = "tcp" THEN Scoped("lock", "server", <<Io("TcpServer::send_to")>>)
    ELSE <<Io("UdpTransport::send")>>

\* run, the body of Ok((size, src)) for one received message
Dispatch(transport, kind) ==
    LET reassemble == Scoped("lock", "tp_reassembler", <<>>)
        request == Scoped("read", "services", handle \o TransportSend(transport))
    IN  CASE kind = "none" -> <<>>
          [] kind = "tp_stored" -> reassemble
          [] kind = "response" -> Scoped("lock", "pending_requests", <<>>)
          [] kind = "notification" -> Scoped("read", "services", handle)
          [] kind = "request" -> request
          [] kind = "tp_request" -> reassemble \o request

\* one pass of the loop of run over one transport
Thread_run(b) == SdPoll \o TransportReceive(b[1]) \o Dispatch(b[1], b[2])

\* SomeIpRuntime::offer_service: the dispatch map, then the SD state
Thread_offer_service == Scoped("write", "services", <<>>) \o Scoped("lock", "sd", <<>>)

\* SomeIpRuntime::register_notification_handler
Thread_register_notification_handler == Scoped("write", "services", <<>>)

\* SomeIpRuntime::subscribe_eventgroup: sd.subscribe_eventgroup ends in send_packet
Thread_subscribe_eventgroup == Scoped("lock", "sd", <<Io("ServiceDiscovery::send_packet")>>)

\* one pass of the loop of SomeIpRuntime::get_client; b is "tcp" when the service is
\* found with proto 0x06, "other" when it is found over UDP or not found
Thread_get_client(b) ==
    Scoped("lock", "sd", <<Io("ServiceDiscovery::poll")>>)
        \o Scoped("lock", "sd", IF b = "tcp" THEN <<Io("TcpTransport::connect")>> ELSE <<>>)

\* SomeIpRuntime::send_request_and_wait; b is "answered" when the response arrives,
\* "removed" when the send fails or the wait times out
Thread_send_request_and_wait(b) ==
    Scoped("lock", "session_manager", <<>>) \o Scoped("lock", "pending_requests", <<>>)
        \o <<Io("UdpTransport::send")>>
        \o (IF b = "removed" THEN Scoped("lock", "pending_requests", <<>>) ELSE <<>>)

\* the branches a thread can take through its function
Branches(t) ==
    CASE t = "run" -> RunBranches
      [] t = "get_client" -> {"tcp", "other"}
      [] t = "send_request_and_wait" -> {"answered", "removed"}
      [] OTHER -> {"only"}

Program(t, b) ==
    CASE t = "run" -> Thread_run(b)
      [] t = "offer_service" -> Thread_offer_service
      [] t = "register_notification_handler" -> Thread_register_notification_handler
      [] t = "subscribe_eventgroup" -> Thread_subscribe_eventgroup
      [] t = "get_client" -> Thread_get_client(b)
      [] t = "send_request_and_wait" -> Thread_send_request_and_wait(b)

\* no thread is inside a function of the runtime
ThreadsIdle == threads = [t \in Threads |-> [pc |-> 0, branch |-> "only", held |-> {}]]

\* the step a thread is at
AtStep(th, t) == Program(t, th[t].branch)[th[t].pc]
Inside(th, t) == th[t].pc > 0

HoldersOf(th, l) == {u \in Threads : \E m \in {"lock", "read", "write"} : <<l, m>> \in th[u].held}
WritersOf(th, l) == {u \in Threads : <<l, "lock">> \in th[u].held \/ <<l, "write">> \in th[u].held}

\* Mutex::lock and RwLock::write need the lock free, RwLock::read needs it free of writers
Available(th, step) ==
    IF step.op = "read" THEN WritersOf(th, step.on) = {} ELSE HoldersOf(th, step.on) = {}

\* the thread moves past its step; after the last step the function returns
Advance(t, held) ==
    LET len == Len(Program(t, threads[t].branch))
    IN  threads' = [threads EXCEPT ![t] = [@ EXCEPT !.pc = IF @ = len THEN 0 ELSE @ + 1, !.held = held]]

\* a caller enters its function, or the event loop starts its next pass
Enter(t, b) ==
    /\ ~Inside(threads, t)
    /\ threads' = [threads EXCEPT ![t] = [pc |-> 1, branch |-> b, held |-> @.held]]
    /\ UNCHANGED notThreads

\* lock(), read() or write() returns the guard
Acquire(t) ==
    /\ Inside(threads, t)
    /\ AtStep(threads, t).op \in {"lock", "read", "write"}
    /\ Available(threads, AtStep(threads, t))
    /\ Advance(t, threads[t].held \cup {<<AtStep(threads, t).on, AtStep(threads, t).op>>})
    /\ UNCHANGED notThreads

\* the guard goes out of scope
Release(t) ==
    /\ Inside(threads, t)
    /\ AtStep(threads, t).op = "drop"
    /\ Advance(t, {h \in threads[t].held : h[1] # AtStep(threads, t).on})
    /\ UNCHANGED notThreads

\* a socket call or a handler call returns
Perform(t) ==
    /\ Inside(threads, t)
    /\ AtStep(threads, t).op \in {"io", "handler"}
    /\ Advance(t, threads[t].held)
    /\ UNCHANGED notThreads

ThreadsNext ==
    \/ \E t \in Threads : \E b \in Branches(t) : Enter(t, b)
    \/ \E t \in Threads : Acquire(t)
    \/ \E t \in Threads : Release(t)
    \/ \E t \in Threads : Perform(t)

-----------------------------------------------------------------------------
(* Specifications *)

\* SessionIdManager::new / an empty session_manager
SessInit ==
    /\ sessObj \in {"SessionIdManager", "SomeIpRuntime"}
    /\ counters = EmptyMap
    /\ session_manager = EmptyMap
    /\ sessRet = [key |-> FullKey, val |-> NoId, prev |-> NoId]
    /\ sessLast = [k \in SessKeys |-> NoId]

\* SomeIpRuntime::load, lines 318-331, with one IPv4 UDP endpoint bound
RtInit ==
    /\ udp_transports = {"v4"}
    /\ services = {}
    /\ pending_requests = EmptyMap
    /\ tp_reassembler = EmptyMap
    /\ calls = <<>>
    /\ rtOut = NoOut

\* ServiceDiscovery::new
SdInit ==
    /\ now = 0
    /\ offer_calls = 0
    /\ local_services = EmptyMap
    /\ remote_services = EmptyMap
    /\ rxOffers = EmptyMap
    /\ subscriptions = EmptyMap
    /\ pending_subscriptions = EmptyMap
    /\ sdOut = <<>>

\* LocalService::new(create_dummy_entry(), vec![])
LsDefault == ls = LocalService_new(DummyEntry, <<>>, 0)

\* session ids: one allocator object, driven call by call
SessionInit == SessInit /\ RtInit /\ SdInit /\ LsDefault /\ TpIdle /\ TcpIdle /\ SrvIdle /\ PoolIdle /\ ThreadsIdle

SpecSession == SessionInit /\ [][SessNext]_vars

\* the dispatcher: callers of send_request_and_wait against the event loop
RuntimeInit ==
    SessInit /\ sessObj = "SomeIpRuntime" /\ RtInit /\ SdInit /\ LsDefault /\ TpIdle /\ TcpIdle /\ SrvIdle /\ PoolIdle /\ ThreadsIdle

SpecRuntime == RuntimeInit /\ [][RtNext]_vars

SpecServe == RuntimeInit /\ [][ServeNext]_vars

\* Service Discovery, offering side
SpecOffer == RuntimeInit /\ [][OfferNext]_vars

\* Service Discovery, the registry of remote services
SpecRemote == RuntimeInit /\ [][RemoteNext]_vars

\* LocalService::with_config(create_dummy_entry(), vec![], &config)
LsInit ==
    /\ SessInit /\ sessObj = "SomeIpRuntime" /\ RtInit /\ SdInit /\ TpIdle /\ TcpIdle /\ SrvIdle /\ PoolIdle /\ ThreadsIdle
    /\ ls \in {with_config(DummyEntry, <<>>, config, 0) : config \in LsConfigs}

SpecLS == LsInit /\ [][LsNext]_vars

\* Service Discovery, eventgroup subscriptions on both sides
SpecEventgroup == RuntimeInit /\ [][EgNext]_vars

\* Service Discovery, the registry of remote services over seconds; the
\* runtime's loop keeps calling poll, and the clock keeps running up to the
\* last instant
SpecTtl == RuntimeInit /\ [][TtlNext]_vars /\ WF_vars(TtlPoll) /\ WF_vars(TickSecond)

\* Service Discovery, offers made on each of the interfaces
SpecListeners == RuntimeInit /\ [][ListenersNext]_vars

\* TP: one payload segmented, its segments reassembled both ways
SpecTp == RuntimeInit /\ [][TpNext]_vars

\* TP: a reassembler receiving any segments under one key
SpecStream == RuntimeInit /\ [][StreamNext]_vars

\* the large-payload client sending its requests
SpecLarge == RuntimeInit /\ [][LargeNext]_vars

\* a TcpTransport receiving the stream of its peer
SpecTcp == RuntimeInit /\ [][TcpNext]_vars

\* a TcpServer, used directly and through TcpServerTransport
SpecServer == RuntimeInit /\ [][SrvNext]_vars

\* a thread pool, its submitters and its drop
SpecPool == RuntimeInit /\ [][PoolNext]_vars

\* the threads of one runtime, interleaved step by step
SpecThreads == RuntimeInit /\ [][ThreadsNext]_vars

\* the same, every thread being scheduled and every job returning
SpecPoolFair == SpecPool /\ WF_vars(WorkerNext) /\ WF_vars(DropNext)

\* TP: the same as SpecTp, the thread in segment_payload being scheduled
SpecTpFair == SpecTp /\ WF_vars(TpLoop)

\* the runtime offering the services of its configuration
SpecProvide == RuntimeInit /\ [][ProvideNext]_vars

\* the dispatcher's callers over a wrap of the session counter
SpecWrap == RuntimeInit /\ [][WrapNext]_vars

-----------------------------------------------------------------------------
(* Claims about session ids *)

\* the id that must follow `prev` for one (service, method) pair
SessSucc(prev) == IF prev = NoId \/ prev = 65535 THEN 1 ELSE prev + 1

\* C1: for a fixed (service-id, method-id) pair every allocation returns the
\* successor of the value returned before it for that pair: 1 first, then +1,
\* and 1 again after 0xFFFF; 0 is never returned.
C1_SessionSequence ==
    sessRet.val # NoId =>
        /\ sessRet.val = SessSucc(sessRet.prev)
        /\ sessRet.val \in 1..65535

\* C1 witness: the SessionIdManager handed out 0xFFFF and then wrapped to 1
C1_Witness ==
    /\ sessObj = "SessionIdManager"
    /\ sessRet.prev = 65535
    /\ sessRet.val = 1

-----------------------------------------------------------------------------
(* Claims about the pending-request map *)

\* C2: every entry of the pending-request map belongs to a
\* send_request_and_wait call that is still in progress, so the map is empty
\* whenever no call is in progress.
C2_NoLeak ==
    \A key \in DOMAIN pending_requests : InProgress(calls[pending_requests[key]])

\* the key a received frame is looked up under
FrameKey(f) == <<f.hdr.service_id, f.hdr.method_id, f.hdr.session_id>>

\* a frame the loop treats as a response: type 0x80 or 0xA0 that got past the
\* length checks and, for 0xA0, completed a reassembly
IsResponse(f) ==
    /\ f.hdr.message_type \in {128, 160}
    /\ rx_stage(tp_reassembler, f).go

\* the waiter of call i got `payload`, every other call is as it was
DeliveredTo(i, payload) ==
    /\ calls'[i].chan = "full"
    /\ calls'[i].val = payload
    /\ \A j \in 1..Len(calls) : j # i => calls'[j] = calls[j]

\* a response with no entry under its key: nothing moves, no handler runs
NoMatchStep ==
    /\ pending_requests' = pending_requests
    /\ calls' = calls
    /\ rtOut'.handled = <<>>

\* a value once put into a waiter's channel is never replaced
AtMostOnePayload ==
    \A i \in 1..Len(calls) :
        calls[i].chan = "full" =>
            calls'[i].chan = "full" /\ calls'[i].val = calls[i].val

-----------------------------------------------------------------------------
(* Claims about offered services *)

\* the phase of the LocalService under key k, or "None"
Phase(m, k) == IF k \in DOMAIN m THEN m[k].phase ELSE "None"

\* the positions in `out` of the OfferService entries for key k
OfferIdx(out, k) ==
    {j \in 1..Len(out) :
        /\ out[j].entries[1].entry_type = "OfferService"
        /\ out[j].entries[1].service_id = k[1]
        /\ out[j].entries[1].instance_id = k[2]}

\* the step is a call of poll
IsPoll == \E order \in Orders(DOMAIN local_services), incoming \in OfferIncoming :
              poll(order, incoming)

\* the step is a call of offer_service for key k
IsOffer(k) == \E port \in OfferPorts, now_nanos \in NanosSamples :
                  offer_service(k[1], k[2], 1, 0, "primary", port, 17, NoMulticast, now_nanos)

\* the step is a call of stop_offer_service for key k
IsStop(k) == stop_offer_service(k[1], k[2])

Due(k) == k \in DOMAIN local_services /\ now >= local_services[k].next_transmission

C4_PhaseStep(k) ==
    /\ Phase(local_services', k) # Phase(local_services, k) =>
          \/ Phase(local_services', k) = "InitialWait" /\ IsOffer(k)
          \/ Phase(local_services', k) = "Down" /\ IsStop(k)
          \/ /\ Phase(local_services, k) = "InitialWait"
             /\ Phase(local_services', k) = "Repetition"
             /\ IsPoll /\ Due(k)
          \/ /\ Phase(local_services, k) = "Repetition"
             /\ Phase(local_services', k) = "Main"
             /\ IsPoll /\ Due(k)
    /\ (IsPoll /\ k \in DOMAIN local_services
               /\ (Phase(local_services, k) = "Down" \/ ~Due(k))) =>
          /\ local_services'[k] = local_services[k]
          /\ OfferIdx(sdOut', k) = {}
    /\ (Phase(local_services, k) = "Main" /\ ~IsOffer(k) /\ ~IsStop(k)) =>
          Phase(local_services', k) = "Main"

\* C4: the phase of a LocalService changes only to InitialWait by
\* offer_service, from InitialWait to Repetition and from Repetition to Main by
\* a poll at which it is due, and to Down by stop_offer_service; a poll leaves
\* a service that is Down or not yet due as it is and emits no offer for it;
\* a service in Main stays there until stop_offer_service or offer_service.
C4_Lifecycle == [][\A k \in LocalKeys : C4_PhaseStep(k)]_vars

\* C4 witness: a service that went through InitialWait, Repetition and Main
\* (its counter passed repetition_max) and was then stopped, next to a service
\* a poll found not yet due
C4_Witness ==
    \E k, o \in DOMAIN local_services :
        /\ local_services[k].phase = "Down"
        /\ local_services[k].repetition_count = local_services[k].repetition_max + 1
        /\ local_services[o].phase \in {"InitialWait", "Repetition"}
        /\ now < local_services[o].next_transmission

C5_StopStep(k) ==
    /\ IsStop(k) =>
          /\ local_services'[k].phase = "Down"
          /\ Len(sdOut') = 1
          /\ OfferIdx(sdOut', k) = {1}
          /\ sdOut'[1].entries[1].ttl = 0
    /\ (local_services[k].phase = "Down" /\ ~IsOffer(k)) =>
          /\ local_services'[k].phase = "Down"
          /\ \A j \in OfferIdx(sdOut', k) : sdOut'[j].entries[1].ttl = 0
          /\ IsPoll => OfferIdx(sdOut', k) = {}

\* C5: stop_offer_service on an offered service leaves it Down and emits one
\* OfferService entry with TTL 0 for its key; from then on, until offer_service
\* is called for the key, the service stays Down, no poll emits an offer for
\* the key and no offer with a TTL above 0 is emitted for it.
C5_StopOffer ==
    [][\A k \in LocalKeys : k \in DOMAIN local_services => C5_StopStep(k)]_vars

\* C5 witness: a service that had sent offers was stopped, the stop offer is
\* the packet just emitted, and its next transmission is already due
C5_Witness ==
    \E k \in DOMAIN local_services :
        /\ local_services[k].phase = "Down"
        /\ local_services[k].repetition_count >= 1
        /\ now >= local_services[k].next_transmission
        /\ OfferIdx(sdOut, k) = {1}
        /\ sdOut[1].entries[1].ttl = 0

C6_RepetitionStep(k) ==
    (local_services[k].phase = "Repetition" /\ Due(k)) =>
        /\ Cardinality(OfferIdx(sdOut', k)) = 1
        /\ \A j \in OfferIdx(sdOut', k) : sdOut'[j].entries[1].ttl = local_services[k].ttl
        /\ local_services'[k].repetition_count = local_services[k].repetition_count + 1
        /\ IF local_services'[k].repetition_count <= local_services[k].repetition_max
           THEN /\ local_services'[k].phase = "Repetition"
                /\ local_services'[k].next_transmission =
                      now + local_services[k].repetition_base_delay
                            * 2 ^ (local_services'[k].repetition_count - 1)
           ELSE local_services'[k].phase = "Main"

\* C6: a poll at which a service in Repetition is due emits one offer for it
\* and adds one to its repetition counter; while the counter is at most
\* repetition_max the service stays in Repetition with its next transmission
\* at now + repetition_base_delay * 2^(count - 1); once the counter exceeds
\* repetition_max the service is in Main after that same poll.
C6_Repetition ==
    [][IsPoll => \A k \in DOMAIN local_services : C6_RepetitionStep(k)]_vars

\* C6 witness: the poll that took the counter past repetition_max moved the
\* service to Main and emitted its offer, after a last backoff of 4 * base
C6_Witness ==
    \E k \in DOMAIN local_services :
        /\ local_services[k].phase = "Main"
        /\ local_services[k].repetition_count = local_services[k].repetition_max + 1
        /\ local_services[k].phase_start = now
        /\ now >= 7 * local_services[k].repetition_base_delay
        /\ OfferIdx(sdOut, k) # {}

C8_OfferStep(k, port, now_nanos) ==
    offer_service(k[1], k[2], 1, 0, "primary", port, 17, NoMulticast, now_nanos) =>
        /\ DOMAIN local_services' = DOMAIN local_services \cup {k}
        /\ \A o \in DOMAIN local_services \ {k} : local_services'[o] = local_services[o]
        /\ local_services'[k].phase = "InitialWait"
        /\ local_services'[k].phase_start = now
        /\ local_services'[k].repetition_count = 0
        /\ local_services'[k].next_transmission \in (now + 10)..(now + 99)
        /\ local_services'[k].entry.service_id = k[1]
        /\ local_services'[k].entry.instance_id = k[2]
        /\ local_services'[k].endpoint_options = <<Ipv4Endpoint("127.0.0.1", 17, port)>>

\* C8: local_services maps a key to one LocalService; offer_service for a key,
\* whether or not the key is present and whatever its phase, leaves under that
\* key a fresh LocalService in InitialWait (counter 0, phase started now, next
\* transmission 10..99 ms ahead) and leaves every other key as it was.
C8_Reoffer ==
    [][\A k \in LocalKeys, port \in OfferPorts, now_nanos \in NanosSamples :
          C8_OfferStep(k, port, now_nanos)]_vars

\* C8 witness: the second offer_service call was made for the only key there
\* is, after its first lifecycle had begun, and the service is in InitialWait
C8_Witness ==
    /\ offer_calls = 2
    /\ \E k \in LocalKeys :
          /\ DOMAIN local_services = {k}
          /\ local_services[k].phase = "InitialWait"
          /\ local_services[k].phase_start > 0
          /\ local_services[k].repetition_count = 0

-----------------------------------------------------------------------------
(* Claims about the registry of remote services *)

\* the options an entry's run names, none if the run passes the end
RunOf(options, index, number) ==
    IF index + number > Len(options) THEN <<>>
    ELSE [j \in 1..number |-> options[index + j]]

\* the RemoteService an offer entry handled at `at` stands for
Offered(rx) ==
    [service_id |-> rx.entry.service_id, instance_id |-> rx.entry.instance_id,
     version_major |-> rx.entry.major_version,
     version_minor |-> rx.entry.minor_version,
     endpoint |-> RunOf(rx.options, rx.entry.index_1, rx.entry.number_of_opts_1)
                  \o RunOf(rx.options, rx.entry.index_2, rx.entry.number_of_opts_2),
     last_seen |-> rx.at,
     ttl |-> rx.entry.ttl]

\* C9: when the OfferService entry last handled for a key had TTL > 0, the
\* registry holds under that key one RemoteService with the entry's major and
\* minor version and TTL and the options of its two runs, in order, out of the
\* entry's packet; a run that passes the end of the options contributes
\* nothing, and the entries after it are handled all the same.
C9_OfferRegistered ==
    \A k \in DOMAIN rxOffers :
        rxOffers[k].entry.ttl > 0 =>
            /\ k \in DOMAIN remote_services
            /\ remote_services[k] = Offered(rxOffers[k])

\* C9 witness: the offer whose first run passes the end was registered with
\* the option of its second run alone, the entry after it was registered too
C9_Witness ==
    /\ <<4660, 1>> \in DOMAIN remote_services
    /\ remote_services[<<4660, 1>>].version_major = 3
    /\ remote_services[<<4660, 1>>].ttl = 9
    /\ remote_services[<<4660, 1>>].endpoint = <<RxOpt1>>
    /\ <<4097, 1>> \in DOMAIN remote_services
    /\ remote_services[<<4097, 1>>].last_seen = remote_services[<<4660, 1>>].last_seen

\* the key is absent for both lookups
Absent(k) ==
    /\ find_service(remote_services, k[1], k[2]) = "None"
    /\ get_service(remote_services, k[1], k[2]) = {}

\* a key is as its own last offer entry left it
AsOffered(k) ==
    IF k \in DOMAIN rxOffers /\ rxOffers[k].entry.ttl > 0
    THEN find_service(remote_services, k[1], k[2]) = Offered(rxOffers[k])
    ELSE find_service(remote_services, k[1], k[2]) = "None"

\* C10: when the OfferService entry last handled for (sid, iid) had TTL 0,
\* find_service(sid, iid) and get_service(sid, iid) return nothing; every other
\* key is as the offer entry last handled for it left it.
C10_StopRemoves ==
    \A k \in DOMAIN rxOffers :
        rxOffers[k].entry.ttl = 0 =>
            /\ Absent(k)
            /\ \A o \in RxKeys \ {k} : AsOffered(o)

\* C10 for keys whose instance id is not the wildcard 0xFFFF
C10_StopRemovesInstance ==
    \A k \in DOMAIN rxOffers :
        (rxOffers[k].entry.ttl = 0 /\ k[2] # 65535) =>
            /\ Absent(k)
            /\ \A o \in RxKeys \ {k} : AsOffered(o)

\* a stop offer removed a registered service while another key stayed
C10_Witness ==
    /\ <<4660, 1>> \in DOMAIN rxOffers
    /\ rxOffers[<<4660, 1>>].entry.ttl = 0
    /\ <<4097, 1>> \in DOMAIN remote_services
    /\ remote_services[<<4097, 1>>].last_seen < rxOffers[<<4660, 1>>].at

-----------------------------------------------------------------------------
(* Claims about FindService *)

\* a FindService entry asks for the LocalService s: same service id and major
\* version, and the same instance id or the wildcard 0xFFFF
FindMatches(entry, s) ==
    /\ entry.entry_type = "FindService"
    /\ entry.service_id = s.entry.service_id
    /\ entry.major_version = s.entry.major_version
    /\ entry.instance_id \in {s.entry.instance_id, 65535}

\* a datagram of `incoming` that poll handles carries a FindService entry for
\* the service offered under key k
FindAsked(incoming, k) ==
    \E i \in 1..Len(incoming) :
        /\ incoming[i].len > 16 /\ incoming[i].parses
        /\ \E j \in 1..Len(incoming[i].packet.entries) :
              FindMatches(incoming[i].packet.entries[j], local_services[k])

NotFindEntry(entry) == entry.entry_type # "FindService"

\* the same datagrams without their FindService entries
StripFinds(incoming) ==
    [i \in 1..Len(incoming) |->
        [incoming[i] EXCEPT !.packet.entries = SelectSeq(@, NotFindEntry)]]

\* C11: a FindService entry matching a service that is offered and not Down is
\* answered with an Offer.  Necessary for that: the poll that handles the entry
\* emits an Offer for the service, or at least does not end exactly as it would
\* have ended without the entry (an Offer sent in response, at once or after a
\* delay, is something the entry caused).
C11_FindAnswered ==
    [][\A k \in LocalKeys, incoming \in OfferIncoming :
          \A order \in Orders(DOMAIN local_services) :
             (/\ k \in DOMAIN local_services
              /\ local_services[k].phase # "Down"
              /\ FindAsked(incoming, k)
              /\ poll(order, incoming))
             => \/ OfferIdx(sdOut', k) # {}
                \/ ~poll(order, StripFinds(incoming))]_vars

-----------------------------------------------------------------------------
(* Claims about eventgroup subscriptions *)

\* C12: subscribing is idempotent per subscriber: however often an endpoint
\* subscribed, the subscriber list of a (service-id, eventgroup-id) key holds
\* no address twice.
C12_Deduplicated ==
    \A k \in DOMAIN subscriptions :
        \A i, j \in 1..Len(subscriptions[k]) :
            i # j => subscriptions[k][i] # subscriptions[k][j]

\* the socket address an endpoint option names
AddrOf(opt) == [address |-> opt.address, port |-> opt.port]

\* the (service-id, eventgroup-id) key of an eventgroup entry
EgKeyOf(entry) == <<entry.service_id, entry.minor_version \div 65536>>

\* where the Ipv4/Ipv6 endpoint options of an entry's first run sit in its
\* packet's options; nowhere when the run passes the end of the options
EndpointIdx(packet, entry) ==
    IF entry.index_1 + entry.number_of_opts_1 > Len(packet.options) THEN {}
    ELSE {i \in (entry.index_1 + 1)..(entry.index_1 + entry.number_of_opts_1) :
             packet.options[i].type \in {"Ipv4Endpoint", "Ipv6Endpoint"}}

\* the subscriber list under a key, empty when the key is absent
SubscribersOf(m, key) == IF key \in DOMAIN m THEN m[key] ELSE <<>>

\* an SD packet that acknowledges the subscribe entry
IsAckFor(p, entry) ==
    /\ Len(p.entries) = 1
    /\ p.entries[1].entry_type = "SubscribeEventgroupAck"
    /\ p.entries[1].service_id = entry.service_id
    /\ p.entries[1].instance_id = entry.instance_id
    /\ p.entries[1].minor_version = entry.minor_version
    /\ p.entries[1].ttl = entry.ttl

C13_SubscribeStep(incoming) ==
    LET packet == incoming[1].packet
        entry  == packet.entries[1]
        key    == EgKeyOf(entry)
        idx    == EndpointIdx(packet, entry)
        old    == SubscribersOf(subscriptions, key)
        new    == SubscribersOf(subscriptions', key)
    IN  (/\ poll(<<>>, incoming)
         /\ entry.entry_type = "SubscribeEventgroup"
         /\ entry.ttl > 0)
        => IF idx # {}
           THEN /\ Len(new) = Len(old) + Cardinality(idx)
                /\ SubSeq(new, 1, Len(old)) = old
                /\ \A i \in idx : \E j \in (Len(old) + 1)..Len(new) :
                      new[j] = AddrOf(packet.options[i])
                /\ \A o \in DOMAIN subscriptions \ {key} :
                      SubscribersOf(subscriptions', o) = subscriptions[o]
                /\ sdOut' # <<>>
                /\ \A j \in 1..Len(sdOut') : IsAckFor(sdOut'[j], entry)
           ELSE /\ subscriptions' = subscriptions
                /\ \A j \in 1..Len(sdOut') :
                      sdOut'[j].entries[1].entry_type # "SubscribeEventgroupAck"

\* C13: a poll that handles a SubscribeEventgroup entry with TTL > 0 whose first
\* option run holds an Ipv4/Ipv6 endpoint option appends the address of every
\* such option to the list under (service-id, eventgroup-id), leaves the other
\* keys alone and emits SubscribeEventgroupAck with the entry's service id,
\* instance id, eventgroup id and TTL; with no endpoint option in the run, or a
\* run that passes the end of the options, nothing is recorded and no ack is
\* emitted.
C13_SubscribeAcked ==
    [][\A incoming \in EgIncoming : incoming # <<>> => C13_SubscribeStep(incoming)]_vars

\* C13 witness: the subscribe with a multicast option before its endpoint was
\* recorded under (0x1234, 1) with the endpoint's address and acknowledged with
\* TTL 100, after the subscribe with two endpoints was recorded under (0x1234, 2)
C13_Witness ==
    /\ <<4660, 2>> \in DOMAIN subscriptions
    /\ subscriptions[<<4660, 2>>] = <<AddrOf(EgOptA), AddrOf(EgOptB)>>
    /\ <<4660, 1>> \in DOMAIN subscriptions
    /\ subscriptions[<<4660, 1>>] = <<AddrOf(EgOptB)>>
    /\ Len(sdOut) = 1
    /\ sdOut[1].entries[1].entry_type = "SubscribeEventgroupAck"
    /\ sdOut[1].entries[1].ttl = 100
    /\ sdOut[1].entries[1].minor_version = 65536

\* C14: a poll that handles a SubscribeEventgroup entry with TTL 0 whose
\* endpoint option names a subscriber recorded under (service-id,
\* eventgroup-id) leaves that subscriber out of the list.
C14_Unsubscribed ==
    [][\A incoming \in EgIncoming :
          (/\ incoming # <<>>
           /\ poll(<<>>, incoming)
           /\ incoming[1].packet.entries[1].entry_type = "SubscribeEventgroup"
           /\ incoming[1].packet.entries[1].ttl = 0)
          => LET packet == incoming[1].packet
                 entry  == packet.entries[1]
                 new    == SubscribersOf(subscriptions', EgKeyOf(entry))
             IN  \A i \in EndpointIdx(packet, entry) :
                    \A j \in 1..Len(new) : new[j] # AddrOf(packet.options[i])]_vars

\* the consumer-side state of a subscription as the node exposes it: None
\* (no entry), Active (is_subscription_acked) or Waiting (Pending or Failed)
SubState(pend, k) ==
    IF k \notin DOMAIN pend THEN "None"
    ELSE IF is_subscription_acked(pend, k[1], k[2]) THEN "Active"
    ELSE "Waiting"

\* the step is a call of subscribe_eventgroup for key k
IsSubscribe(k) == subscribe_eventgroup(k[1], 1, k[2], 100, "primary", 40000, 40001)

\* the step is a call of unsubscribe_eventgroup for key k
IsUnsubscribe(k) == unsubscribe_eventgroup(k[1], 1, k[2], "primary")

\* the step is a poll that handles a SubscribeEventgroupAck for key k with a
\* TTL above 0 (positive) or of 0
IsAck(k, positive) ==
    \E incoming \in EgIncoming :
        /\ incoming # <<>>
        /\ poll(<<>>, incoming)
        /\ incoming[1].packet.entries[1].entry_type = "SubscribeEventgroupAck"
        /\ EgKeyOf(incoming[1].packet.entries[1]) = k
        /\ (incoming[1].packet.entries[1].ttl > 0) = positive

C15_SubscriptionStep(k) ==
    LET before == SubState(pending_subscriptions, k)
        after  == SubState(pending_subscriptions', k)
    IN  /\ IsSubscribe(k) => after = "Waiting"
        /\ IsUnsubscribe(k) => after = "None"
        /\ (before # "None" /\ IsAck(k, TRUE)) => after = "Active"
        /\ (before # "None" /\ IsAck(k, FALSE)) => after = "Waiting"
        /\ after # before =>
              \/ IsSubscribe(k)
              \/ IsUnsubscribe(k)
              \/ before # "None" /\ (IsAck(k, TRUE) \/ IsAck(k, FALSE))

\* C15: the subscription for (service-id, eventgroup-id) is None until
\* subscribe_eventgroup makes it Pending; an ack with TTL > 0 makes a
\* subscription that exists Active (is_subscription_acked true), an ack with
\* TTL 0 makes it Failed (is_subscription_acked false); unsubscribe_eventgroup
\* makes it None; nothing else changes it, so a subscription that is None is
\* never made Active by an ack.
C15_SubscriptionLifecycle == [][\A k \in EgKeys : C15_SubscriptionStep(k)]_vars

-----------------------------------------------------------------------------
(* Claims about get_service *)

\* service and instance ids get_service is asked for: registered ones and one
\* that no offer names
LookupServices == {4660, 4097}
LookupInstances == {1, 2, 3}

\* where the Ipv4/Ipv6 endpoint options sit in the options of a RemoteService
UnicastIdx(svc) ==
    {i \in 1..Len(svc.endpoint) : svc.endpoint[i].type \in {"Ipv4Endpoint", "Ipv6Endpoint"}}

\* what get_service is to return for a RemoteService: its endpoint option of
\* least index, as (address, port, L4 protocol); nothing when it has none
ExpectedEndpoint(svc) ==
    IF UnicastIdx(svc) = {} THEN {}
    ELSE LET i == CHOOSE x \in UnicastIdx(svc) : \A y \in UnicastIdx(svc) : x <= y
         IN  {[address |-> svc.endpoint[i].address, port |-> svc.endpoint[i].port,
               transport_proto |-> svc.endpoint[i].transport_proto]}

\* the endpoints of the registered services with service id sid
EndpointsOfService(sid) ==
    UNION {ExpectedEndpoint(remote_services[k]) :
              k \in {x \in DOMAIN remote_services : x[1] = sid}}

\* C16: get_service(sid, iid) returns the first Ipv4/Ipv6 endpoint option of
\* the RemoteService under (sid, iid), and nothing when the key is absent or
\* the service has no such option; get_service(sid, 0xFFFF) returns the
\* endpoint of some registered service with that service id, and returns one
\* whenever one of them has an endpoint option.
C16_GetService ==
    /\ \A sid \in LookupServices, iid \in LookupInstances :
          get_service(remote_services, sid, iid) =
             IF <<sid, iid>> \in DOMAIN remote_services
             THEN ExpectedEndpoint(remote_services[<<sid, iid>>])
             ELSE {}
    /\ \A sid \in LookupServices :
          /\ get_service(remote_services, sid, 65535) \subseteq EndpointsOfService(sid)
          /\ EndpointsOfService(sid) # {} => get_service(remote_services, sid, 65535) # {}

\* C16 witness: a service registered with a multicast option before its
\* endpoint option is looked up by key and by wildcard
C16_Witness ==
    /\ <<4660, 1>> \in DOMAIN remote_services
    /\ remote_services[<<4660, 1>>].endpoint = <<RxOpt3, RxOpt2>>
    /\ get_service(remote_services, 4660, 1) =
          {[address |-> "fd00::2", port |-> 30502, transport_proto |-> 6]}
    /\ get_service(remote_services, 4660, 65535) # {}
    /\ get_service(remote_services, 4660, 3) = {}

-----------------------------------------------------------------------------
(* Claims about the TTL of remote services *)

\* the TTL (seconds) of the RemoteService under k has elapsed since it was seen
TtlElapsed(k) ==
    /\ k \in DOMAIN remote_services
    /\ now - remote_services[k].last_seen > remote_services[k].ttl * 1000

\* C17: a RemoteService whose TTL has elapsed does not stay so for ever: a
\* poll evicts it (or an Offer refreshes it).
C17_Evicted == \A k \in TtlKeys : TtlElapsed(k) ~> ~TtlElapsed(k)

-----------------------------------------------------------------------------
(* Claims about the interface of an offer *)

\* the endpoint options of type t among the options opts
OptionsOfType(opts, t) == {i \in 1..Len(opts) : opts[i].type = t}

\* the local addresses of the listeners registered under another alias
OtherAddresses(iface_alias) ==
    UNION {{listeners[a].local_ip_v4, listeners[a].local_ip_v6} :
            a \in DOMAIN listeners \ {iface_alias}} \ {"None"}

\* the options installed for key are those of the listener under iface_alias
C18_OfferStep(key, iface_alias, port, proto) ==
    LET opts == local_services'[key].endpoint_options
        v4   == OptionsOfType(opts, "Ipv4Endpoint")
        v6   == OptionsOfType(opts, "Ipv6Endpoint")
        has4 == iface_alias \in DOMAIN listeners /\ listeners[iface_alias].local_ip_v4 # "None"
        has6 == iface_alias \in DOMAIN listeners /\ listeners[iface_alias].local_ip_v6 # "None"
    IN  /\ key \in DOMAIN local_services'
        /\ local_services'[key].phase = "InitialWait"
        /\ \A i \in 1..Len(opts) \ (v4 \cup v6) :
              opts[i].type \in {"Ipv4Multicast", "Ipv6Multicast"}
        /\ Cardinality(v4) = (IF has4 THEN 1 ELSE 0)
        /\ Cardinality(v6) = (IF has6 THEN 1 ELSE 0)
        /\ \A i \in v4 : opts[i].address = listeners[iface_alias].local_ip_v4
        /\ \A i \in v6 : opts[i].address = listeners[iface_alias].local_ip_v6
        /\ \A i \in 1..Len(opts) : opts[i].address \notin OtherAddresses(iface_alias)
        /\ \A i \in v4 \cup v6 : opts[i].port = port /\ opts[i].transport_proto = proto
        /\ iface_alias \notin DOMAIN listeners => v4 \cup v6 = {}

\* C18: offer_service installs unicast endpoint options only from the listener
\* registered under iface_alias: one Ipv4Endpoint if it has a local v4 address,
\* one Ipv6Endpoint if it has a local v6 address, none when no listener has the
\* alias (the service is offered all the same), never another listener's address.
C18_AliasOptions ==
    [][\A key \in LocalKeys, iface_alias \in OfferAliases, port \in AliasPorts,
          proto \in AliasProtos, multicast \in OfferMulticasts :
          offer_service(key[1], key[2], 1, 0, iface_alias, port, proto, multicast, 0)
          => C18_OfferStep(key, iface_alias, port, proto)]_vars

\* one service offered on the dual-stack interface with both options, another
\* offered under an alias without listener, with none
C18_Witness ==
    \E k1, k2 \in DOMAIN local_services :
       /\ Len(local_services[k1].endpoint_options) = 2
       /\ local_services[k1].endpoint_options[1].address = listeners["dual"].local_ip_v4
       /\ local_services[k1].endpoint_options[2].address = listeners["dual"].local_ip_v6
       /\ OptionsOfType(local_services[k2].endpoint_options, "Ipv4Endpoint") = {}
       /\ OptionsOfType(local_services[k2].endpoint_options, "Ipv6Endpoint") = {}
       /\ local_services[k2].endpoint_options # <<>>
       /\ local_services[k2].phase = "InitialWait"

-----------------------------------------------------------------------------
(* Claims about TP segmentation *)

\* max rounded down to a multiple of 16
AlignedDown(max) == max - (max % 16)

\* the bytes from .. from + n - 1 of the payload handed to segment_payload
PayloadBytes(from, n) ==
    IF n = 0 THEN <<>> ELSE <<[src |-> "payload", off |-> from, len |-> n]>>

\* C19: of the segments segment_payload returns, every one but the last has
\* exactly aligned_max bytes and More = 1, the last carries the remainder with
\* More = 0, segment i (from 0) starts at byte i * aligned_max, and an empty
\* payload gives one segment of length 0 at offset 0 with More = 0.
C19_SegmentShape ==
    tpRun.pc = "returned" =>
       LET segs  == tpRun.segments
           n     == Len(segs)
           a     == AlignedDown(tpRun.max)
           total == BLen(tpRun.payload)
       IN  /\ n >= 1
           /\ \A i \in 1..n :
                 /\ segs[i].tp.offset = (i - 1) * a
                 /\ segs[i].tp.more_segments = (i < n)
                 /\ segs[i].chunk = PayloadBytes((i - 1) * a,
                                                 IF i < n THEN a ELSE total - (n - 1) * a)
           /\ total > 0 => total - (n - 1) * a \in 1..a
           /\ total = 0 => segs = <<[tp |-> [offset |-> 0, more_segments |-> FALSE],
                                     chunk |-> <<>>]>>

\* 40 bytes with max 16 returned as three segments, as in test_segmentation,
\* and an empty payload as one
C19_Witness ==
    /\ tpRun.pc = "returned"
    /\ \/ /\ BLen(tpRun.payload) = 40
          /\ tpRun.max = 16
          /\ Len(tpRun.segments) = 3
          /\ BLen(tpRun.segments[3].chunk) = 8
       \/ /\ BLen(tpRun.payload) = 100
          /\ tpRun.max = 30
          /\ Len(tpRun.segments) = 7

\* C20: for max >= 16, the segments of segment_payload(p, max), put into the
\* offset map of reassemble_payload or all delivered to process_segment under
\* one key, give back exactly p.
C20_RoundTrip ==
    (tpRun.pc = "returned" /\ tpRun.max >= 16) =>
       /\ tpRun.assembled.called =>
             tpRun.assembled.ok /\ tpRun.assembled.payload = tpRun.payload
       /\ tpRun.fed = 1..Len(tpRun.segments) =>
             tpRun.last.done /\ tpRun.last.payload = tpRun.payload

\* 100 bytes with max 30: seven segments, reassembled both ways
C20_Witness ==
    /\ tpRun.pc = "returned"
    /\ tpRun.max = 30
    /\ BLen(tpRun.payload) = 100
    /\ Len(tpRun.segments) = 7
    /\ tpRun.fed = 1..7
    /\ tpRun.last.done
    /\ tpRun.assembled.called
    /\ tpRun.assembled.payload = tpRun.payload

-----------------------------------------------------------------------------
(* Claims about TP reassembly *)

RECURSIVE ChunksInOrder(_)
\* the chunks of a list of segments, one after the other
ChunksInOrder(segments) ==
    IF segments = <<>> THEN <<>>
    ELSE BCat(Head(segments).chunk, ChunksInOrder(Tail(segments)))

\* C21: the segments of one message delivered to process_segment under one
\* key in any order: every call before the last returns Incomplete, and the
\* call that delivers the last missing segment returns the same payload, the
\* chunks in offset order, whatever the order of delivery.
C21_OrderIndependent ==
    (tpRun.pc = "returned" /\ tpRun.fed # {}) =>
       IF tpRun.fed = 1..Len(tpRun.segments)
       THEN /\ tpRun.last.done
            /\ tpRun.last.payload = ChunksInOrder(tpRun.segments)
       ELSE ~tpRun.last.done

\* three segments delivered first, last, middle, as in test_tp_reassembler_flow
C21_Witness ==
    /\ tpRun.pc = "returned"
    /\ Len(tpRun.segments) = 3
    /\ tpRun.order = <<1, 3, 2>>
    /\ tpRun.last.done
    /\ BLen(tpRun.last.payload) = 40

\* the key every segment of the stream is delivered under
StreamKey == <<TpMessageId, TpRequestId>>

\* the segments stored for the key, offset -> [data, more]
StoredFor(buffers) == IF StreamKey \in DOMAIN buffers THEN buffers[StreamKey] ELSE EmptyMap

\* what is stored for the key once segment sg has been inserted
StoredWith(buffers, sg) ==
    LET old == StoredFor(buffers)
    IN  [o \in DOMAIN old \cup {sg.tp.offset} |->
            IF o = sg.tp.offset THEN [data |-> sg.chunk, more |-> sg.tp.more_segments]
            ELSE old[o]]

\* the bytes stored below offset o
BytesBelow(stored, o) ==
    LET below == {p \in DOMAIN stored : p < o}
        Sum[S \in SUBSET below] ==
            IF S = {} THEN 0
            ELSE LET p == CHOOSE q \in S : TRUE
                 IN  BLen(stored[p].data) + Sum[S \ {p}]
    IN  Sum[below]

\* offset 0 is stored, and some segment with More = 0 is stored such that each
\* segment up to it starts where the segments before it end and has More = 1
ContiguousToEnd(stored) ==
    /\ 0 \in DOMAIN stored
    /\ \E e \in DOMAIN stored :
          /\ ~stored[e].more
          /\ \A o \in DOMAIN stored :
                o <= e => /\ o = BytesBelow(stored, o)
                          /\ o < e => stored[o].more

\* C22: process_segment returns an assembled payload only when the segments
\* stored for the key include offset 0 and are contiguous up to a segment with
\* More = 0; otherwise it returns Incomplete and keeps the key's segments; on
\* completion the key is evicted, so the next segment starts a fresh assembly.
C22_CompleteOnlyContiguous ==
    [][\A i \in 1..Len(StreamSegments) :
          TpDeliver(i) =>
             LET stored == StoredWith(tpRun.buffers, StreamSegments[i])
             IN  /\ tpRun'.last.done <=> ContiguousToEnd(stored)
                 /\ tpRun'.last.done => StreamKey \notin DOMAIN tpRun'.buffers
                 /\ ~tpRun'.last.done => /\ StreamKey \in DOMAIN tpRun'.buffers
                                         /\ tpRun'.buffers[StreamKey] = stored]_vars

\* a message completed, and the next segment of the key kept on its own
C22_Witness ==
    /\ tpRun.pc = "stream"
    /\ tpRun.order = <<2, 1, 3, 2>>
    /\ ~tpRun.last.done
    /\ DOMAIN StoredFor(tpRun.buffers) = {16}

\* the bytes stored for the key
BufferedBytes(stored) ==
    LET Sum[S \in SUBSET DOMAIN stored] ==
            IF S = {} THEN 0
            ELSE LET p == CHOOSE q \in S : TRUE
                 IN  BLen(stored[p].data) + Sum[S \ {p}]
    IN  Sum[DOMAIN stored]

\* C23: the bytes the reassembler has buffered for one key never exceed a
\* fixed per-key maximum (64 KiB, the least the specification recommends): a
\* segment that would take the key past it is refused and the key is evicted.
C23_BufferBounded == BufferedBytes(StoredFor(tpRun.buffers)) <= 64 * 1024

-----------------------------------------------------------------------------
(* Claims about the replies of the event loop *)

\* a reply message to the request whose header is hdr, received as frame f
IsReplyTo(m, f) ==
    /\ m.hdr.service_id = f.hdr.service_id
    /\ m.hdr.method_id = f.hdr.method_id
    /\ m.hdr.client_id = f.hdr.client_id
    /\ m.hdr.session_id = f.hdr.session_id
    /\ m.dst = f.src
    /\ m.via = f.via

\* the replies are one Response, or ResponseWithTp segments each within the limit
ReplyTypes(sent, returned) ==
    IF BLen(returned) > 1376
    THEN \A n \in 1..Len(sent) : /\ sent[n].hdr.message_type = 160
                                 /\ BLen(sent[n].data) <= 1376
    ELSE Len(sent) = 1 /\ sent[1].hdr.message_type = 128 /\ sent[1].data = returned

\* what one pass of the loop over frame f has left in rtOut'
C24_ReceiveStep(f) ==
    LET mt      == f.hdr.message_type
        whole   == rx_stage(tp_reassembler, f).go
        invoked == rtOut'.handled # <<>>
        sent    == rtOut'.sent
    IN  /\ invoked <=> (whole /\ f.hdr.service_id \in services
                        /\ mt \in {0, 32, 1, 33, 2, 34})
        /\ sent # <<>> <=> (invoked /\ mt \in {0, 32}
                            /\ rtOut'.handled[1].returned # NoReply)
        /\ sent # <<>> => /\ \A n \in 1..Len(sent) : IsReplyTo(sent[n], f)
                          /\ ReplyTypes(sent, rtOut'.handled[1].returned)

\* C24: the loop sends a reply exactly when the inbound message is a Request or
\* RequestWithTp for a service with a registered handler and the handler yields
\* a payload; every reply message carries the request's service, method, client
\* and session ids, has type 0x80 (0xA0 for the segments of a payload above the
\* limit) and goes to the request's source on the transport it arrived on;
\* RequestNoReturn and Notification messages invoke the handler without reply.
C24_ReplyExactly == [][\A f \in RxRequests : run_receive(f) => C24_ReceiveStep(f)]_vars

\* a segmented reply to a reassembled request of client 7 that came in over
\* TCP
C24_Witness ==
    /\ Len(rtOut.sent) = 2
    /\ rtOut.sent[1].hdr.message_type = 160
    /\ rtOut.sent[1].hdr.client_id = 7
    /\ rtOut.sent[1].via = "tcp"
    /\ rtOut.handled # <<>>
    /\ rtOut.handled[1].message_type = 32
    /\ BLen(rtOut.handled[1].payload) = 20

-----------------------------------------------------------------------------
(* Claims about the large-payload scenario *)

\* call i, holding a request of 5000 bytes, has its n-th message sent
LargeSend(i, n) ==
    /\ i \in 1..Len(calls)
    /\ BLen(calls[i].payload) = 5000
    /\ calls[i].seg = n
    /\ SRW_Send(i, TRUE)

\* the message sent is a RequestWithTp segment with len bytes of the payload
\* from byte offset on
LargeSegment(m, offset, len, more) ==
    /\ m.hdr.message_type = 32
    /\ m.hdr.length = 8 + 4 + len
    /\ m.tp = (offset \div 16) * 16 + (IF more THEN 1 ELSE 0)
    /\ m.data = <<[src |-> "large", off |-> offset, len |-> len]>>

\* C25 as stated: a request of 5000 bytes is split into four TP segments of
\* 1376 bytes each plus one smaller final segment.
C25_FiveSegments ==
    [][\A i \in 1..MaxCalls, n \in 1..5 :
          LargeSend(i, n) =>
             /\ n <= 4 => /\ LargeSegment(rtOut'.sent[1], (n - 1) * 1376, 1376, TRUE)
                          /\ calls'[i].pc = "send"
             /\ n = 5 => /\ BLen(rtOut'.sent[1].data) < 1376
                         /\ calls'[i].pc = "wait"]_vars

\* C25: a request of 5000 bytes sent by send_request_and_wait (MTU 1400, 20
\* header bytes) is split into three TP segments of 1376 bytes each plus a
\* final segment of 872 bytes.
C25_FourSegments ==
    [][\A i \in 1..MaxCalls, n \in 1..5 :
          LargeSend(i, n) =>
             /\ n <= 3 => /\ LargeSegment(rtOut'.sent[1], (n - 1) * 1376, 1376, TRUE)
                          /\ calls'[i].pc = "send"
             /\ n = 4 => /\ LargeSegment(rtOut'.sent[1], 4128, 872, FALSE)
                         /\ calls'[i].pc = "wait"
             /\ n # 5]_vars

\* the last segment of a 5000-byte request has just been sent
C25_Witness ==
    \E i \in 1..Len(calls) :
       /\ calls[i].pc = "wait"
       /\ calls[i].seg = 5
       /\ BLen(calls[i].payload) = 5000
       /\ Len(rtOut.sent) = 1
       /\ rtOut.sent[1].hdr.session_id = calls[i].session_id
       /\ rtOut.sent[1].hdr.method_id = calls[i].method_id
       /\ BLen(rtOut.sent[1].data) = 872

-----------------------------------------------------------------------------
(* Claims about TCP framing *)

\* C26: however the peer's byte stream is cut into reads, each successful
\* receive returns one complete message of exactly 8 + length bytes, in the
\* order the messages were sent, no byte twice and none skipped; and
\* receive answers WouldBlock only while no complete message is buffered.
C26_Framed ==
    /\ Len(tcp.got) <= Len(tcp.msgs)
    /\ \A k \in 1..Len(tcp.got) :
          k <= Len(tcp.msgs) =>
             tcp.got[k] = <<[src |-> <<k, tcp.msgs[k]>>, off |-> 0, len |-> tcp.msgs[k]]>>
    /\ tcp.last.kind = "WouldBlock" =>
          \/ BLen(tcp.recv_buf) < 8
          \/ BLen(tcp.recv_buf) < Head(tcp.recv_buf).src[2]

-----------------------------------------------------------------------------
(* Claims about the TCP server *)

\* the peer addr has no entry in the server s
PeerGone(s, addr) ==
    /\ addr \notin s.connections
    /\ addr \notin DOMAIN s.tcp_buffers
    /\ send_to(s, addr) = "NotConnected"

\* a receive_from of a connected peer whose read reports EOF
EofInReceiveFrom(addr) ==
    /\ addr \in srv.connections
    /\ \E buffer_len \in TcpBufferSizes : receive_from(buffer_len, addr, [kind |-> "eof", n |-> 0])

\* a TcpServerTransport::receive in which the read from addr reports EOF
EofInReceive(addr) ==
    \E buffer_len \in TcpBufferSizes, clients \in Orders(AcceptAll(srv).connections) :
       \E rds \in [AcceptAll(srv).connections -> UNION {TcpReads(srv.wire[a]) : a \in Peers}] :
          /\ addr \in DOMAIN rds
          /\ rds[addr].kind = "eof"
          /\ ServerReceive(buffer_len, clients, rds)

\* C27: when a read from an accepted peer reports EOF, in receive_from or in
\* TcpServerTransport::receive, the peer is afterwards not among the
\* connected clients, has no frame buffer, and send_to it is NotConnected
C27_EofRemovesPeer ==
    [][\A addr \in Peers :
          EofInReceiveFrom(addr) \/ EofInReceive(addr) => PeerGone(srv', addr)]_vars

-----------------------------------------------------------------------------
(* Claims about the thread pool *)

\* job i was submitted before job j with the same key
SameKey(i, j) ==
    /\ i < j
    /\ pool.jobs[i].key # NoKey
    /\ pool.jobs[i].key = pool.jobs[j].key

\* C28: jobs submitted with the same key go to the same worker, and a later
\* one starts only once every earlier one has returned, whatever jobs of
\* other keys are submitted and run in between
C28_KeyedInOrder ==
    \A i, j \in DOMAIN pool.jobs :
       SameKey(i, j) =>
          /\ pool.jobs[i].worker = pool.jobs[j].worker
          /\ pool.jobs[j].status # "queued" => pool.jobs[i].status = "done"

\* two jobs of one key have run, a job of another key was submitted between
\* them and runs on another worker while the first is still running
C28_Witness ==
    /\ Len(pool.jobs) = 3
    /\ SameKey(1, 3)
    /\ pool.jobs[2].key \notin {NoKey, pool.jobs[1].key}
    /\ pool.jobs[2].worker # pool.jobs[1].worker
    /\ pool.jobs[1].status = "running"
    /\ pool.jobs[2].status = "done"
    /\ pool.jobs[3].status = "queued"

\* the workers of the jobs i .. i + n - 1
WorkersOf(i, n) == {pool.jobs[j].worker : j \in i..(i + n - 1)}

\* C29: in a pool of n workers, n consecutive jobs without a key go to n
\* different workers
C29_RoundRobin ==
    \A i \in DOMAIN pool.jobs :
       (/\ i + pool.size - 1 <= Len(pool.jobs)
        /\ \A j \in i..(i + pool.size - 1) : pool.jobs[j].key = NoKey)
       => Cardinality(WorkersOf(i, pool.size)) = pool.size

\* drop has returned
Dropped == pool.pc = "dropped"

\* C30: a drop that has begun returns; when it has returned every submitted
\* job has run to completion and every worker has received Terminate and
\* exited
C30_DropTerminates ==
    /\ [](Dropped => /\ NotDone(pool) = {}
                     /\ \A i \in DOMAIN pool.wpc :
                           pool.wpc[i] = "exited" /\ pool.queues[i] = <<>>)
    /\ (pool.pc \in {"terminate", "join"}) ~> Dropped

\* drop has returned from a pool of several workers in which jobs were
\* still queued or running when the drop began
C30_Witness ==
    /\ Dropped
    /\ pool.size > 1
    /\ pool.backlog >= 2
    /\ Len(pool.jobs) = 3

-----------------------------------------------------------------------------
(* Claims about termination of segmentation *)

-----------------------------------------------------------------------------
(* Claims about the assembled payload *)

\* the offset of the first stored segment with More = 0
EndOffset(stored) == MinOf({o \in DOMAIN stored : ~stored[o].more})

\* C34: when process_segment returns an assembled payload, its length is the
\* offset plus the length of the More = 0 segment that completed it: segments
\* stored for the key at higher offsets are not part of it
C34_NoStaleBytes ==
    [][\A i \in 1..Len(StreamSegments) :
          (TpDeliver(i) /\ tpRun'.last.done) =>
             LET stored == StoredWith(tpRun.buffers, StreamSegments[i])
                 e      == EndOffset(stored)
             IN  BLen(tpRun'.last.payload) = e + BLen(stored[e].data)]_vars

-----------------------------------------------------------------------------
(* Claims about the framing of the TCP server transport *)

\* the buffer of addr is empty or starts with the first byte of a message
InStep(s, addr) ==
    addr \in DOMAIN s.tcp_buffers =>
       \/ s.tcp_buffers[addr] = <<>>
       \/ Head(s.tcp_buffers[addr]).off = 0

\* C35: after TcpServerTransport::receive returns a message of a connection
\* whose buffer was in step, the buffer starts at the first byte of the next
\* message, for every size of the caller's buffer
C35_ServerInStep ==
    [][(/\ srv'.calls = srv.calls + 1
        /\ srv'.last.op = "receive"
        /\ srv'.last.kind = "Ok"
        /\ \A addr \in Peers : InStep(srv, addr))
       => InStep(srv', srv'.last.addr)]_vars

\* the buffer of addr starts with a complete message
HoldsMessage(s, addr) ==
    /\ InStep(s, addr)
    /\ check_buffer(s, addr) >= 0

\* the complete message the buffer of addr starts with
HeldMessage(s, addr) == BSlice(s.tcp_buffers[addr], 0, check_buffer(s, addr))

\* C36: a complete message that TcpServerTransport has read into a peer's
\* buffer is returned by a later receive: a call of receive either returns
\* it or leaves it in the buffer, also when the peer has closed meanwhile
C36_MessageNotLost ==
    [][\A addr \in Peers :
          (/\ srv'.calls = srv.calls + 1
           /\ srv'.last.op = "receive"
           /\ HoldsMessage(srv, addr))
          => \/ /\ srv'.last.kind = "Ok"
                /\ srv'.last.addr = addr
                /\ srv'.last.data = HeldMessage(srv, addr)
             \/ /\ HoldsMessage(srv', addr)
                /\ HeldMessage(srv', addr) = HeldMessage(srv, addr)]_vars

-----------------------------------------------------------------------------
(* Claims about offers on several interfaces *)

\* the local addresses of the listener under iface_alias
AddressesOf(iface_alias) ==
    {listeners[iface_alias].local_ip_v4, listeners[iface_alias].local_ip_v6} \ {"None"}

\* the providing entry of a (service-id, instance-id)
AliasOf(service_id, instance_id) ==
    CHOOSE alias \in DOMAIN providing :
       /\ providing[alias].service_id = service_id
       /\ providing[alias].instance_id = instance_id

\* C37: the offers emitted for a service offered through its providing entry
\* carry the endpoint options of every interface listed in offer_on
C37_EveryInterface ==
    \A i \in 1..Len(sdOut) :
       LET entry == sdOut[i].entries[1]
           cfg   == providing[AliasOf(entry.service_id, entry.instance_id)]
       IN  entry.entry_type = "OfferService" =>
              \A iface_alias \in DOMAIN cfg.offer_on :
                 \A address \in AddressesOf(iface_alias) :
                    \E o \in 1..Len(sdOut[i].options) :
                       sdOut[i].options[o].address = address

-----------------------------------------------------------------------------
(* Claims about acknowledged subscriptions *)

\* C38: is_subscription_acked is true only while a subscription of this node
\* is outstanding. A key absent from pending_subscriptions has none (it was
\* never subscribed, or unsubscribed since), so no step makes it acked: the
\* only step that may follow for it is subscribe_eventgroup, which leaves it
\* unacknowledged
C38_AckedOnlySubscribed ==
    [][\A k \in EgKeys :
          k \notin DOMAIN pending_subscriptions
          => ~is_subscription_acked(pending_subscriptions', k[1], k[2])]_vars

-----------------------------------------------------------------------------
(* Claims about late responses *)

\* a call made with this key has ended without a response, and the key has
\* no slot any more or a slot whose Receiver is gone
StoppedWaiting(key) ==
    /\ \E i \in 1..Len(calls) :
          /\ PendingKey(calls[i]) = key
          /\ calls[i].pc \in {"done", "dropped"}
          /\ calls[i].chan # "full"
    /\ key \in DOMAIN pending_requests => ~RxAlive(calls[pending_requests[key]])

\* C32: a response whose caller has stopped waiting, by timeout or by dropping
\* the waiter, is a no-op: no call changes, no handler runs, and the key has
\* no entry in the pending map afterwards
C32_LateResponseNoOp ==
    [][\A f \in RxResponses :
          (IsResponse(f) /\ StoppedWaiting(FrameKey(f)) /\ run_receive(f)) =>
             /\ FrameKey(f) \notin DOMAIN pending_requests'
             /\ calls' = calls
             /\ rtOut'.handled = <<>>]_vars

\* the slot a dropped call had left behind is gone, and the call got nothing
C32_Witness ==
    \E i \in 1..Len(calls) :
       /\ calls[i].pc = "dropped"
       /\ calls[i].chan = "open"
       /\ PendingKey(calls[i]) \notin DOMAIN pending_requests

-----------------------------------------------------------------------------
(* Claims about the pending slots of concurrent calls *)

\* call j is outstanding and the slot under its key holds its Sender
OwnsSlot(pend, cs, j) ==
    /\ InProgress(cs[j])
    /\ PendingKey(cs[j]) \in DOMAIN pend
    /\ pend[PendingKey(cs[j])] = j

\* call i leaves through one of its cleanups: its send failed, or its wait
\* ended by the deadline or by a dropped Sender
Cleanup(i) == SRW_Send(i, FALSE) \/ SRW_GiveUp(i)

\* C39: the cleanup of one call removes its own slot only: the slot of any
\* other outstanding call is still that call's afterwards, also when the
\* session counter has wrapped onto the id of a call that is still waiting
C39_OwnSlotOnly ==
    [][\A i, j \in 1..Len(calls) :
          (i # j /\ OwnsSlot(pending_requests, calls, j) /\ Cleanup(i))
          => OwnsSlot(pending_requests', calls', j)]_vars

-----------------------------------------------------------------------------
(* Claims about the locks of the runtime *)

GuardedLocks == {"sd", "tp_reassembler", "pending_requests"}
HeldLocks(th, t) == {h[1] : h \in th[t].held}

\* C31: no thread performs socket I/O or runs a handler while it holds the lock of the
\* SD state, of the TP reassembler or of the pending-request map.
C31_NoIoUnderLock == [][\A t \in Threads : Perform(t) => HeldLocks(threads, t) \cap GuardedLocks = {}]_vars

\* a thread is blocked when the lock it asks for is not available
Blocked(th, t) ==
    /\ Inside(th, t)
    /\ AtStep(th, t).op \in {"lock", "read", "write"}
    /\ ~Available(th, AtStep(th, t))

\* the threads a blocked thread waits for
WaitsFor(th, t) ==
    IF AtStep(th, t).op = "read" THEN WritersOf(th, AtStep(th, t).on) ELSE HoldersOf(th, AtStep(th, t).on)

\* every thread of S is blocked on a lock that a thread of S holds
Deadlocked(th, S) == \A t \in S : Blocked(th, t) /\ WaitsFor(th, t) \cap S # {}

\* C40: in every interleaving of the event loop with the callers, no set of threads
\* waits forever on the locks: there is never a set of threads each blocked on a lock
\* held inside the set.
C40_DeadlockFree == \A S \in SUBSET {t \in Threads : Blocked(threads, t)} : S # {} => ~Deadlocked(threads, S)

\* two callers wait at once for locks the event loop or another caller holds
C40_Witness ==
    \E t \in Callers : \E u \in Callers \ {t} :
        /\ Blocked(threads, t) /\ Blocked(threads, u)
        /\ AtStep(threads, t).on # AtStep(threads, u).on

====
